---- MODULE Spec2Model ----
(***************************************************************************)
(* Session runtime of fitzig: the phase state machine of                   *)
(* src/lib/session-runner.ts (getCurrentRemainingSeconds,                  *)
(* moveToNextExercise, transitionAtBoundary, advanceRuntimeToNow).         *)
(*                                                                         *)
(* Times are wall-clock milliseconds, durations are whole seconds.         *)
(* exercises is a 1-based sequence here, so the code's 0-based             *)
(* template.exercises[i] is template.exercises[i + 1].                     *)
(***************************************************************************)
EXTENDS Integers, Sequences, FiniteSets, TLC

\* ------------------------------------------------------------------ bounds
MaxExercises == 2
MaxSets == 2
MaxDuration == 2
MaxCooldown == 1

\* ------------------------------------------------------- values and helpers
\* null of `number | null` (timestamps are never negative)
Null == -1
\* null of `RunningStatus | null`
NullPhase == "null"
\* the `null` a transition returns when no next phase exists
NoState == [status |-> "none"]

Max(a, b) == IF a >= b THEN a ELSE b


\* ------------------------------------------------------ session-runner.ts
MAX_TRANSITIONS_PER_TICK == 512

IsRunningStatus(status) == status = "exercise" \/ status = "cooldown"

\* line 28 / 97 / 104: the state has no running phase to time
NotRunningBothNeeded(state) ==
    ~IsRunningStatus(state.status) /\ state.phaseStartedAt = Null
NotRunning(state) ==
    ~IsRunningStatus(state.status) \/ state.phaseStartedAt = Null

\* Math.floor(Math.max(0, now - phaseStartedAt) / 1000)
ElapsedSecondsRounded(state, t) == (Max(0, t - state.phaseStartedAt) + 500) \div 1000
ElapsedSeconds(state, t) == Max(0, t - state.phaseStartedAt) \div 1000

GetCurrentRemainingSecondsUnclamped(rt, t) ==
    IF NotRunning(rt)
      THEN Max(0, rt.remainingSeconds)
      ELSE rt.remainingSeconds - ElapsedSeconds(rt, t)
GetCurrentRemainingSeconds(rt, t) ==
    IF NotRunning(rt)
      THEN Max(0, rt.remainingSeconds)
      ELSE Max(0, rt.remainingSeconds - ElapsedSeconds(rt, t))

MoveToNextExerciseExtraSet(state, tpl, phaseStartAt) ==
    LET nextExerciseIndex == state.currentExerciseIndex + 1
        nextSetIndex == state.currentSetIndex + 1
    IN  IF nextExerciseIndex < Len(tpl.exercises)
          THEN [state EXCEPT !.status = "exercise",
                             !.currentExerciseIndex = nextExerciseIndex,
                             !.remainingSeconds = tpl.exercises[nextExerciseIndex + 1].durationSeconds,
                             !.phaseStartedAt = phaseStartAt,
                             !.pausedAt = Null,
                             !.pausedPhase = NullPhase]
          ELSE IF nextSetIndex <= tpl.setsCount
          THEN [state EXCEPT !.status = "exercise",
                             !.currentSetIndex = nextSetIndex,
                             !.currentExerciseIndex = 0,
                             !.remainingSeconds = tpl.exercises[1].durationSeconds,
                             !.phaseStartedAt = phaseStartAt,
                             !.pausedAt = Null,
                             !.pausedPhase = NullPhase]
          ELSE NoState
MoveToNextExerciseShortLastSet(state, tpl, phaseStartAt) ==
    LET nextExerciseIndex == state.currentExerciseIndex + 1
        nextSetIndex == state.currentSetIndex + 1
    IN  IF nextExerciseIndex < Len(tpl.exercises)
          THEN [state EXCEPT !.status = "exercise",
                             !.currentExerciseIndex = nextExerciseIndex,
                             !.remainingSeconds = tpl.exercises[nextExerciseIndex + 1].durationSeconds,
                             !.phaseStartedAt = phaseStartAt,
                             !.pausedAt = Null,
                             !.pausedPhase = NullPhase]
          ELSE IF nextSetIndex < tpl.setsCount - 1
          THEN [state EXCEPT !.status = "exercise",
                             !.currentSetIndex = nextSetIndex,
                             !.currentExerciseIndex = 0,
                             !.remainingSeconds = tpl.exercises[1].durationSeconds,
                             !.phaseStartedAt = phaseStartAt,
                             !.pausedAt = Null,
                             !.pausedPhase = NullPhase]
          ELSE NoState
MoveToNextExercise(state, tpl, phaseStartAt) ==
    LET nextExerciseIndex == state.currentExerciseIndex + 1
        nextSetIndex == state.currentSetIndex + 1
    IN  IF nextExerciseIndex < Len(tpl.exercises)
          THEN [state EXCEPT !.status = "exercise",
                             !.currentExerciseIndex = nextExerciseIndex,
                             !.remainingSeconds = tpl.exercises[nextExerciseIndex + 1].durationSeconds,
                             !.phaseStartedAt = phaseStartAt,
                             !.pausedAt = Null,
                             !.pausedPhase = NullPhase]
          ELSE IF nextSetIndex < tpl.setsCount
          THEN [state EXCEPT !.status = "exercise",
                             !.currentSetIndex = nextSetIndex,
                             !.currentExerciseIndex = 0,
                             !.remainingSeconds = tpl.exercises[1].durationSeconds,
                             !.phaseStartedAt = phaseStartAt,
                             !.pausedAt = Null,
                             !.pausedPhase = NullPhase]
          ELSE NoState

TransitionAtBoundaryAlwaysCooldown(state, tpl, boundaryTime) ==
    IF state.status = "exercise" /\ tpl.cooldownSeconds >= 0
      THEN [state EXCEPT !.status = "cooldown",
                         !.remainingSeconds = tpl.cooldownSeconds,
                         !.phaseStartedAt = boundaryTime,
                         !.pausedAt = Null,
                         !.pausedPhase = NullPhase]
      ELSE MoveToNextExercise(state, tpl, boundaryTime)
TransitionAtBoundary(state, tpl, boundaryTime) ==
    IF state.status = "exercise" /\ tpl.cooldownSeconds > 0
      THEN [state EXCEPT !.status = "cooldown",
                         !.remainingSeconds = tpl.cooldownSeconds,
                         !.phaseStartedAt = boundaryTime,
                         !.pausedAt = Null,
                         !.pausedPhase = NullPhase]
      ELSE MoveToNextExercise(state, tpl, boundaryTime)

\* line 103: the for loop's condition
LoopContinuesInclusive(n) == n <= MAX_TRANSITIONS_PER_TICK
LoopContinues(n) == n < MAX_TRANSITIONS_PER_TICK

\* line 109: the current phase is still pending at t
PendingInPhaseInclusive(state, t) == ElapsedSeconds(state, t) <= state.remainingSeconds
PendingInPhase(state, t) == ElapsedSeconds(state, t) < state.remainingSeconds

\* line 113
BoundaryTimeIsNow(state, t) == t
BoundaryTime(state, t) == state.phaseStartedAt + state.remainingSeconds * 1000

\* ------------------------------------------------------ workout-storage.ts
\* What AsyncStorage holds under ACTIVE_SESSION_KEY: nothing, the empty
\* string, text JSON.parse throws on, or the text of a JSON value.  JSON
\* values are tagged: a whole number, a number n + 1/2, a number too large
\* for a double (JSON.parse gives Infinity), a string, null, an object with
\* the snapshot's keys; JAbsent is a key the object does not have.
Missing == [t |-> "missing"]
EmptyText == [t |-> "empty"]
Unparsable == [t |-> "unparsable"]
JNull == [t |-> "null"]
JAbsent == [t |-> "absent"]
JInf == [t |-> "inf"]
JNum(n) == [t |-> "num", v |-> n]
JFrac(n) == [t |-> "frac", v |-> n]
JStr(str) == [t |-> "str", s |-> str]

\* typeof x === 'number' && Number.isFinite(x)
IsFiniteNumber(j) == j.t \in {"num", "frac"}
\* Math.floor of a finite number: n + 1/2 floors to n
Floor(j) == j.v
\* Math.round of a whole number
Round(n) == n
\* typeof x === 'string'
IsString(j) == j.t = "str"
\* the snapshot's timestamps are whole milliseconds when they are numbers
NumberOrNull(j) == IF j.t = "num" THEN j.v ELSE Null
\* x === 'exercise' || x === 'cooldown' ? x : null
PhaseOrNull(j) == IF IsString(j) /\ j.s \in {"exercise", "cooldown"} THEN j.s ELSE NullPhase

\* the `null` the decoders return
NoSnapshot == [status |-> "null"]

\* normalizeSessionStatus
NormalizeSessionStatus(j) ==
    IF IsString(j) /\ j.s \in {"idle", "exercise", "cooldown", "paused"} THEN j.s ELSE NullPhase

NormalizeActiveSnapshotLenient(input) ==
    IF input.t # "obj" THEN NoSnapshot
    ELSE [templateId |-> IF IsString(input.templateId) THEN input.templateId.s ELSE "",
          currentExerciseIndex |-> IF IsFiniteNumber(input.currentExerciseIndex) THEN Max(0, Floor(input.currentExerciseIndex)) ELSE 0,
          currentSetIndex |-> IF IsFiniteNumber(input.currentSetIndex) THEN Max(0, Floor(input.currentSetIndex)) ELSE 0,
          status |-> IF NormalizeSessionStatus(input.status) = NullPhase THEN "idle" ELSE NormalizeSessionStatus(input.status),
          remainingSeconds |-> IF IsFiniteNumber(input.remainingSeconds) THEN Max(0, Floor(input.remainingSeconds)) ELSE 0,
          phaseStartedAt |-> NumberOrNull(input.phaseStartedAt),
          pausedAt |-> NumberOrNull(input.pausedAt),
          startedAt |-> NumberOrNull(input.startedAt),
          updatedAt |-> IF input.updatedAt.t = "num" THEN input.updatedAt.v ELSE 0,
          pausedPhase |-> PhaseOrNull(input.pausedPhase),
          countdownRemaining |-> IF IsFiniteNumber(input.countdownRemaining)
                                   THEN Max(0, Floor(input.countdownRemaining)) ELSE Null,
          countdownTargetStatus |-> PhaseOrNull(input.countdownTargetStatus)]

\* normalizeActiveSnapshot (undefined countdownRemaining: Null)
NormalizeActiveSnapshot(input) ==
    IF input.t # "obj" THEN NoSnapshot
    ELSE IF NormalizeSessionStatus(input.status) = NullPhase THEN NoSnapshot
    ELSE IF ~IsString(input.templateId) \/ input.templateId.s = "" THEN NoSnapshot
    ELSE IF ~IsFiniteNumber(input.currentExerciseIndex) THEN NoSnapshot
    ELSE IF ~IsFiniteNumber(input.currentSetIndex) THEN NoSnapshot
    ELSE IF ~IsFiniteNumber(input.remainingSeconds) THEN NoSnapshot
    ELSE IF ~IsFiniteNumber(input.updatedAt) THEN NoSnapshot
    ELSE [templateId |-> input.templateId.s,
          currentExerciseIndex |-> Max(0, Floor(input.currentExerciseIndex)),
          currentSetIndex |-> Max(0, Floor(input.currentSetIndex)),
          status |-> NormalizeSessionStatus(input.status),
          remainingSeconds |-> Max(0, Floor(input.remainingSeconds)),
          phaseStartedAt |-> NumberOrNull(input.phaseStartedAt),
          pausedAt |-> NumberOrNull(input.pausedAt),
          startedAt |-> NumberOrNull(input.startedAt),
          updatedAt |-> input.updatedAt.v,
          pausedPhase |-> PhaseOrNull(input.pausedPhase),
          countdownRemaining |-> IF IsFiniteNumber(input.countdownRemaining)
                                   THEN Max(0, Floor(input.countdownRemaining)) ELSE Null,
          countdownTargetStatus |-> PhaseOrNull(input.countdownTargetStatus)]

\* getActiveSessionSnapshot: `!raw`, a JSON.parse that throws, and values
\* that are no snapshot all give null
GetActiveSessionSnapshot(raw) ==
    IF raw \in {Missing, EmptyText, Unparsable} THEN NoSnapshot
    ELSE NormalizeActiveSnapshot(raw)

\* JSON.stringify of a number | null field
JsonNumber(n) == IF n = Null THEN JNull ELSE JNum(n)
\* JSON.stringify of the snapshot persistSnapshotNow builds: null stays
\* null, a key whose value is undefined is left out
JsonStringify(snapshot) ==
    [t |-> "obj",
     templateId |-> JStr(snapshot.templateId),
     currentExerciseIndex |-> JNum(snapshot.currentExerciseIndex),
     currentSetIndex |-> JNum(snapshot.currentSetIndex),
     status |-> JStr(snapshot.status),
     remainingSeconds |-> JNum(snapshot.remainingSeconds),
     phaseStartedAt |-> JsonNumber(snapshot.phaseStartedAt),
     pausedAt |-> JsonNumber(snapshot.pausedAt),
     startedAt |-> JsonNumber(snapshot.startedAt),
     updatedAt |-> JNum(snapshot.updatedAt),
     pausedPhase |-> IF snapshot.pausedPhase = NullPhase THEN JNull ELSE JStr(snapshot.pausedPhase),
     countdownRemaining |-> IF snapshot.countdownRemaining = Null THEN JAbsent
                            ELSE JNum(snapshot.countdownRemaining),
     countdownTargetStatus |-> IF snapshot.countdownTargetStatus = NullPhase THEN JAbsent
                               ELSE JStr(snapshot.countdownTargetStatus)]

\* ------------------------------------------------------------------ state
VARIABLES
    template,     \* the SessionTemplate the calls are made with
    runtime,      \* the RuntimeSessionState passed in (the caller's state)
    now,          \* the `now` argument of the call in progress (Null: none yet)
    nextState,    \* advanceRuntimeToNow: local `nextState`
    transitions,  \* advanceRuntimeToNow: loop counter `transitions`
    completed,    \* advanceRuntimeToNow: the `completed` flag it returns
    remaining,    \* result of the last getCurrentRemainingSeconds call (Null: none)
    pc            \* "ready" | "loop" | "done" | "queried"

\* State of RunSessionScreen (src/app/session/run.tsx) and of the device
\* around it; `template` and `runtime` above are its useState values too.
VARIABLES
    params,                 \* route params: [resume |-> BOOLEAN]
    settings,               \* useState settings: countdownEnabled, countdownSeconds
    countdownRemaining,     \* useState countdownRemaining
    countdownTargetStatus,  \* useState countdownTargetStatus (NullPhase: null)
    clock,                  \* useState clock
    errorMessage,           \* useState errorMessage ("null": null)
    screen,                 \* "unmounted" | "loading" | "run" | "complete" | "home"
    stored,                 \* AsyncStorage value under ACTIVE_SESSION_KEY
    appState,               \* appStateRef: "active" | "background"
    dirty,                  \* what changed in the last commit: effects still to run
    lastChange              \* the handler or effect that set `runtime` last

\* Refs of the screen, what it asked of AsyncStorage and of the router, and
\* what it showed.
VARIABLES
    pending,       \* AsyncStorage requests on ACTIVE_SESSION_KEY issued and not yet done, oldest first
    isCompleting,  \* isCompletingRef
    hasWarned,     \* hasWarnedStorageRef
    alerts,        \* titles of the Alert.alert calls since the screen mounted
    handoffs,      \* params of the router.replace calls to /session/complete since the mount
    invoked,       \* the handler that was called last and returned at its guard ("none": none yet)
    account,       \* of the phase the session is in: the time it ran up to its last pause, its pauses
    cue            \* the triggerHaptic calls of the last pass of the effects, in order

\* variables of the session-runner calls
callVars == <<now, nextState, transitions, completed, remaining, pc>>
\* variables of the screen
screenVars == <<params, settings, countdownRemaining, countdownTargetStatus, clock,
                errorMessage, screen, stored, appState, dirty, lastChange>>
\* refs, requests and alerts of the screen
asyncVars == <<pending, isCompleting, hasWarned, alerts, handoffs, invoked, account, cue>>

vars == <<template, runtime, now, nextState, transitions, completed, remaining, pc,
          params, settings, countdownRemaining, countdownTargetStatus, clock,
          errorMessage, screen, stored, appState, dirty, lastChange,
          pending, isCompleting, hasWarned, alerts, handoffs, invoked, account, cue>>

\* ----------------------------------------------------------------- inputs
Exercise(d) == [durationSeconds |-> d]

\* Exercise lists of 1..MaxExercises exercises whose durations run through
\* 1..MaxDuration cyclically from any first duration, so that neighbouring
\* exercises (and the first and the last) differ in duration.
ExerciseLists ==
    {[i \in 1..n |-> Exercise(1 + ((first + i) % MaxDuration))] :
        n \in 1..MaxExercises, first \in 0..(MaxDuration - 1)}

\* Templates as the session builder saves them (create.tsx canSave):
\* 1..MAX_EXERCISES exercises of positive duration, setsCount > 0,
\* cooldownSeconds >= 0.
BoundedTemplates ==
    [exercises : ExerciseLists,
     setsCount : 1..MaxSets,
     cooldownSeconds : 0..MaxCooldown]

\* The templates of the worked examples, and one whose 514 one-second
\* phases outnumber MAX_TRANSITIONS_PER_TICK.
PushUpSquat == [exercises |-> <<Exercise(45), Exercise(45)>>, setsCount |-> 3, cooldownSeconds |-> 20]
TenFive == [exercises |-> <<Exercise(10), Exercise(10)>>, setsCount |-> 2, cooldownSeconds |-> 5]
ManySets == [exercises |-> <<Exercise(1)>>, setsCount |-> 257, cooldownSeconds |-> 1]
ScenarioTemplates == {PushUpSquat, TenFive, ManySets}

\* createIdleRuntime()
CreateIdleRuntime ==
    [status |-> "idle", currentExerciseIndex |-> 0, currentSetIndex |-> 0,
     remainingSeconds |-> 0, phaseStartedAt |-> Null, startedAt |-> Null,
     pausedAt |-> Null, pausedPhase |-> NullPhase]

\* The state a session starts its first exercise in at time t
\* (handleStart, then the phase start of startPhaseWithOptionalCountdown).
StartState(tpl, t) ==
    [status |-> "exercise", currentExerciseIndex |-> 0, currentSetIndex |-> 0,
     remainingSeconds |-> tpl.exercises[1].durationSeconds, phaseStartedAt |-> t,
     startedAt |-> t, pausedAt |-> Null, pausedPhase |-> NullPhase]

\* configured duration of the phase `state` is in (pausedPhase when paused)
PhaseDuration(tpl, status, exerciseIndex) ==
    IF status = "cooldown" THEN tpl.cooldownSeconds
    ELSE tpl.exercises[exerciseIndex + 1].durationSeconds

PhaseStartTimes == {0, 1500}

\* Running states of a session on tpl: any position, a cooldown only when
\* the template has one, any whole number of seconds left of the phase.
RunningStates(tpl) ==
    {[status |-> st, currentExerciseIndex |-> e, currentSetIndex |-> s,
      remainingSeconds |-> r, phaseStartedAt |-> p, startedAt |-> 0,
      pausedAt |-> Null, pausedPhase |-> NullPhase] :
        <<st, e, r>> \in {x \in {"exercise", "cooldown"} \X (0..(Len(tpl.exercises) - 1)) \X (0..Max(MaxDuration, MaxCooldown)) :
                            /\ (x[1] = "cooldown" => tpl.cooldownSeconds > 0)
                            /\ x[3] <= PhaseDuration(tpl, x[1], x[2])},
        s \in 0..(tpl.setsCount - 1),
        p \in PhaseStartTimes}

\* States with no running phase: idle before start, idle during the start
\* countdown, paused, and a running status that lost its phaseStartedAt.
StoppedStates(tpl) ==
    {CreateIdleRuntime,
     [StartState(tpl, 0) EXCEPT !.status = "idle", !.phaseStartedAt = Null]}
    \cup {[status |-> "paused", currentExerciseIndex |-> 0, currentSetIndex |-> 0,
           remainingSeconds |-> r, phaseStartedAt |-> Null, startedAt |-> 0,
           pausedAt |-> 500, pausedPhase |-> ph] :
             r \in 0..1, ph \in {"exercise"} \cup (IF tpl.cooldownSeconds > 0 THEN {"cooldown"} ELSE {})}
    \cup {[StartState(tpl, 0) EXCEPT !.phaseStartedAt = Null]}

RECURSIVE SumDurations(_, _)
\* seconds of the first n exercises of a set, each with its cooldown
SumDurations(tpl, n) ==
    IF n = 0 THEN 0
    ELSE tpl.exercises[n].durationSeconds + tpl.cooldownSeconds + SumDurations(tpl, n - 1)

\* The last sampling instant: by then the sets from the current one on have
\* certainly elapsed.
LastSampleTime(tpl, rt) ==
    (3 + (tpl.setsCount - rt.currentSetIndex) * SumDurations(tpl, Len(tpl.exercises))) * 1000

\* Sampling instants: every half second from 0 to the last one (the clock
\* effect samples every 250 ms; half seconds give the same whole-second
\* boundaries and an instant strictly between two of them)
SampleTimes(tpl, rt) == {k * 500 : k \in 0..(LastSampleTime(tpl, rt) \div 500)}

\* Instants of the worked examples (45 s, 65 s, 9 min, 1000 s)
ScenarioTimes == {0, 500, 1000, 45000, 65000, 540000, 1000000}

Times(tpl, rt) ==
    IF tpl \in ScenarioTemplates THEN ScenarioTimes ELSE SampleTimes(tpl, rt)

\* DEFAULT_SETTINGS of the screen (the fields the timer reads)
DEFAULT_SETTINGS == [countdownEnabled |-> TRUE, countdownSeconds |-> 3]

\* a phase that has run for no time yet and was never paused; forward
\* tells that no pause of the phase read a time before the phase's anchor,
\* onTime that none read a time after its boundary
NoAccount == [ranMs |-> 0, pauses |-> 0, forward |-> TRUE, onTime |-> TRUE]

\* a mounted screen that has asked for nothing and shown nothing yet
FreshRefs ==
    /\ pending = <<>>
    /\ isCompleting = FALSE
    /\ hasWarned = FALSE
    /\ alerts = <<>>
    /\ handoffs = <<>>
    /\ invoked = "none"
    /\ account = NoAccount
    /\ cue = <<>>
    /\ cue = <<>>

\* The screen is not mounted: its state holds the useState initial values
\* and nothing is stored.
ScreenUnmounted ==
    /\ params = [resume |-> FALSE]
    /\ settings = DEFAULT_SETTINGS
    /\ countdownRemaining = 0
    /\ countdownTargetStatus = NullPhase
    /\ clock = Null
    /\ errorMessage = "null"
    /\ screen = "unmounted"
    /\ stored = Missing
    /\ appState = "active"
    /\ dirty = {}
    /\ lastChange = "none"
    /\ FreshRefs

Init ==
    /\ \/ /\ template \in BoundedTemplates
          /\ runtime \in RunningStates(template) \cup StoppedStates(template)
       \/ /\ template \in ScenarioTemplates
          /\ runtime = StartState(template, 0)
    /\ now = Null
    /\ nextState = runtime
    /\ transitions = 0
    /\ completed = FALSE
    /\ remaining = Null
    /\ pc = "ready"
    /\ ScreenUnmounted

\* -------------------------------------------------- getCurrentRemainingSeconds
QueryRemaining(t) ==
    /\ pc = "ready"
    /\ now' = t
    /\ remaining' = GetCurrentRemainingSeconds(runtime, t)
    /\ pc' = "queried"
    /\ UNCHANGED <<template, runtime, nextState, transitions, completed, screenVars, asyncVars>>

\* the sampling instant that follows t (none: Null)
NextTime(tpl, rt, t) ==
    IF tpl \in ScenarioTemplates
      THEN IF \E u \in ScenarioTimes : u > t
             THEN CHOOSE u \in ScenarioTimes : u > t /\ \A v \in ScenarioTimes : v > t => u <= v
             ELSE Null
      ELSE IF t + 500 <= LastSampleTime(tpl, rt) THEN t + 500 ELSE Null

\* the same state queried again at the next clock sample
QueryAgain ==
    /\ pc = "queried"
    /\ NextTime(template, runtime, now) # Null
    /\ now' = NextTime(template, runtime, now)
    /\ remaining' = GetCurrentRemainingSeconds(runtime, now')
    /\ UNCHANGED <<template, runtime, nextState, transitions, completed, pc, screenVars, asyncVars>>

\* ------------------------------------------------------- advanceRuntimeToNow
\* lines 97-99: nothing is running, the input is returned as it is
AdvanceNotRunning(t) ==
    /\ pc = "ready"
    /\ NotRunning(runtime)
    /\ now' = t
    /\ nextState' = runtime
    /\ completed' = FALSE
    /\ pc' = "done"
    /\ UNCHANGED <<template, runtime, transitions, remaining, screenVars, asyncVars>>

\* lines 101-103: nextState = runtime, transitions = 0
AdvanceEnterLoop(t) ==
    /\ pc = "ready"
    /\ ~NotRunning(runtime)
    /\ now' = t
    /\ nextState' = runtime
    /\ transitions' = 0
    /\ pc' = "loop"
    /\ UNCHANGED <<template, runtime, completed, remaining, screenVars, asyncVars>>

\* lines 104-111: the phase of nextState is still pending at now
LoopReturnsState(state, t) == NotRunning(state) \/ PendingInPhase(state, t)

LoopPending ==
    /\ pc = "loop"
    /\ LoopContinues(transitions)
    /\ LoopReturnsState(nextState, now)
    /\ completed' = FALSE
    /\ pc' = "done"
    /\ UNCHANGED <<template, runtime, now, nextState, transitions, remaining, screenVars, asyncVars>>

\* lines 113-119: one boundary crossed
LoopTransition ==
    /\ pc = "loop"
    /\ LoopContinues(transitions)
    /\ ~LoopReturnsState(nextState, now)
    /\ LET transitioned == TransitionAtBoundary(nextState, template, BoundaryTime(nextState, now))
       IN  /\ transitioned # NoState
           /\ nextState' = transitioned
    /\ transitions' = transitions + 1
    /\ UNCHANGED <<template, runtime, now, completed, remaining, pc, screenVars, asyncVars>>

\* lines 115-117: no next phase exists
LoopNoNextPhase ==
    /\ pc = "loop"
    /\ LoopContinues(transitions)
    /\ ~LoopReturnsState(nextState, now)
    /\ TransitionAtBoundary(nextState, template, BoundaryTime(nextState, now)) = NoState
    /\ completed' = TRUE
    /\ pc' = "done"
    /\ UNCHANGED <<template, runtime, now, nextState, transitions, remaining, screenVars, asyncVars>>

\* line 122: the loop ran out of iterations
LoopCapReached ==
    /\ pc = "loop"
    /\ ~LoopContinues(transitions)
    /\ completed' = TRUE
    /\ pc' = "done"
    /\ UNCHANGED <<template, runtime, now, nextState, transitions, remaining, screenVars, asyncVars>>

Next ==
    \/ \E t \in Times(template, runtime) : QueryRemaining(t)
    \/ QueryAgain
    \/ \E t \in Times(template, runtime) : AdvanceNotRunning(t)
    \/ \E t \in Times(template, runtime) : AdvanceEnterLoop(t)
    \/ LoopPending
    \/ LoopTransition
    \/ LoopNoNextPhase
    \/ LoopCapReached

Spec == Init /\ [][Next]_vars

\* =================================================== src/app/session/run.tsx
\* ------------------------------------------------------------------ bounds
\* Date.now() returns 0, 500 or a whole second up to MaxWallSeconds seconds
MaxWallSeconds == 1
\* the settings screen stores countdownSeconds of 1..10; here 1..MaxCountdownSeconds
MaxCountdownSeconds == 2

SNAPSHOT_MAX_AGE_MS == 24 * 60 * 60 * 1000

\* advanceRuntimeToNow as the function the advance effect calls: the loop
\* of LoopPending, LoopTransition, LoopNoNextPhase and LoopCapReached.
\* The iterations from transitions = n up to stop, where the loop is left
\* running (returned FALSE) unless it has returned before
RECURSIVE AdvanceLoopUpTo(_, _, _, _, _)
AdvanceLoopUpTo(state, tpl, t, n, stop) ==
    IF n = stop
      THEN [nextState |-> state, completed |-> FALSE, returned |-> FALSE, transitions |-> n]
    ELSE IF ~LoopContinues(n)
      THEN [nextState |-> state, completed |-> TRUE, returned |-> TRUE, transitions |-> n]
    ELSE IF LoopReturnsState(state, t)
      THEN [nextState |-> state, completed |-> FALSE, returned |-> TRUE, transitions |-> n]
    ELSE LET transitioned == TransitionAtBoundary(state, tpl, BoundaryTime(state, t))
         IN  IF transitioned = NoState
               THEN [nextState |-> state, completed |-> TRUE, returned |-> TRUE,
                     transitions |-> n]
               ELSE AdvanceLoopUpTo(transitioned, tpl, t, n + 1, stop)

\* the loop from transitions = n on, evaluated 32 iterations at a time so
\* that a call of 512 iterations is not 512 evaluations deep
RECURSIVE AdvanceLoop(_, _, _, _)
AdvanceLoop(state, tpl, t, n) ==
    LET part == AdvanceLoopUpTo(state, tpl, t, n, n + 32)
    IN  IF part.returned
          THEN [nextState |-> part.nextState, completed |-> part.completed]
          ELSE AdvanceLoop(part.nextState, tpl, t, part.transitions)

AdvanceRuntimeToNowRefreshes(rt, tpl, t) ==
    IF NotRunning(rt) THEN [nextState |-> rt, completed |-> FALSE]
    ELSE LET result == AdvanceLoop(rt, tpl, t, 0)
             state == result.nextState
         IN  [result EXCEPT !.nextState =
                 IF NotRunning(state) THEN state
                 ELSE [state EXCEPT
                         !.remainingSeconds = GetCurrentRemainingSeconds(state, t),
                         !.phaseStartedAt = state.phaseStartedAt
                                              + 1000 * (state.remainingSeconds
                                                        - GetCurrentRemainingSeconds(state, t))]]

AdvanceRuntimeToNow(rt, tpl, t) ==
    IF NotRunning(rt) THEN [nextState |-> rt, completed |-> FALSE]
    ELSE AdvanceLoop(rt, tpl, t, 0)

\* the id the stored template carries
TemplateIdOf(tpl) == "template-1"

NormalizeSnapshotToRuntimeKeepsStatus(snapshot, t) ==
    [status |-> snapshot.status,
     currentExerciseIndex |-> snapshot.currentExerciseIndex,
     currentSetIndex |-> snapshot.currentSetIndex,
     remainingSeconds |-> Max(0, Round(snapshot.remainingSeconds)),
     phaseStartedAt |-> snapshot.phaseStartedAt,
     startedAt |-> snapshot.startedAt,
     pausedAt |-> snapshot.pausedAt,
     pausedPhase |-> snapshot.pausedPhase]

\* normalizeSnapshotToRuntime, with t the Date.now() it reads
NormalizeSnapshotToRuntime(snapshot, t) ==
    LET status == snapshot.status
        remainingSeconds == Max(0, Round(snapshot.remainingSeconds))
        pausedPhase == IF status = "paused" /\ snapshot.pausedPhase = NullPhase
                         THEN "exercise" ELSE snapshot.pausedPhase
    IN  IF status \in {"exercise", "cooldown"} /\ snapshot.phaseStartedAt = Null
          THEN [status |-> "paused",
                currentExerciseIndex |-> snapshot.currentExerciseIndex,
                currentSetIndex |-> snapshot.currentSetIndex,
                remainingSeconds |-> remainingSeconds,
                phaseStartedAt |-> Null,
                startedAt |-> snapshot.startedAt,
                pausedAt |-> IF snapshot.pausedAt = Null THEN t ELSE snapshot.pausedAt,
                pausedPhase |-> IF pausedPhase = NullPhase THEN status ELSE pausedPhase]
          ELSE [status |-> status,
                currentExerciseIndex |-> snapshot.currentExerciseIndex,
                currentSetIndex |-> snapshot.currentSetIndex,
                remainingSeconds |-> remainingSeconds,
                phaseStartedAt |-> snapshot.phaseStartedAt,
                startedAt |-> snapshot.startedAt,
                pausedAt |-> snapshot.pausedAt,
                pausedPhase |-> pausedPhase]

BuildSnapshotStale(tpl, rt, cr, target, t) ==
    [templateId |-> TemplateIdOf(tpl),
     currentExerciseIndex |-> rt.currentExerciseIndex,
     currentSetIndex |-> rt.currentSetIndex,
     status |-> rt.status,
     remainingSeconds |-> rt.remainingSeconds,
     phaseStartedAt |-> rt.phaseStartedAt,
     pausedAt |-> rt.pausedAt,
     startedAt |-> rt.startedAt,
     updatedAt |-> t,
     pausedPhase |-> rt.pausedPhase,
     countdownRemaining |-> IF cr > 0 THEN cr ELSE Null,
     countdownTargetStatus |-> target]

BuildSnapshotKeepsAnchor(tpl, rt, cr, target, t) ==
    [BuildSnapshotStale(tpl, rt, cr, target, t) EXCEPT
        !.remainingSeconds = GetCurrentRemainingSeconds(rt, t)]

BuildSnapshotWithoutCountdown(tpl, rt, cr, target, t) ==
    [BuildSnapshotKeepsAnchor(tpl, rt, cr, target, t) EXCEPT
        !.phaseStartedAt = IF IsRunningStatus(rt.status) /\ rt.phaseStartedAt # Null
                             THEN t ELSE rt.phaseStartedAt,
        !.countdownRemaining = Null]

\* the snapshot persistSnapshotNow builds at t = Date.now()
BuildSnapshot(tpl, rt, cr, target, t) ==
    [templateId |-> TemplateIdOf(tpl),
     currentExerciseIndex |-> rt.currentExerciseIndex,
     currentSetIndex |-> rt.currentSetIndex,
     status |-> rt.status,
     remainingSeconds |-> GetCurrentRemainingSeconds(rt, t),
     phaseStartedAt |-> IF IsRunningStatus(rt.status) /\ rt.phaseStartedAt # Null
                          THEN t ELSE rt.phaseStartedAt,
     pausedAt |-> rt.pausedAt,
     startedAt |-> rt.startedAt,
     updatedAt |-> t,
     pausedPhase |-> rt.pausedPhase,
     countdownRemaining |-> IF cr > 0 THEN cr ELSE Null,
     countdownTargetStatus |-> target]

PersistSnapshotNowAlwaysSaves(tpl, rt, cr, target, t) ==
    JsonStringify(BuildSnapshot(tpl, rt, cr, target, t))

\* persistSnapshotNow: what the store holds once its write is done
PersistSnapshotNow(tpl, rt, cr, target, t) ==
    IF rt.startedAt # Null \/ cr > 0
      THEN JsonStringify(BuildSnapshot(tpl, rt, cr, target, t))
      ELSE Missing

\* ----------------------------------------------------------------- inputs
\* the values Date.now() returns: the wall clock may stand still, jump and
\* go backwards between any two reads
WallTimes == {0, 500} \cup {k * 1000 : k \in 1..MaxWallSeconds}
\* the instants a session is started at
StartTimes == {0, 500}

\* The stored template the screen is opened for: two exercises with a
\* cooldown over two sets, or one exercise and nothing after it.
RunTemplates ==
    {[exercises |-> <<Exercise(1), Exercise(2)>>, setsCount |-> 2, cooldownSeconds |-> 1],
     [exercises |-> <<Exercise(2)>>, setsCount |-> 1, cooldownSeconds |-> 0]}

\* the stored settings (normalizeSettings keeps countdownSeconds in 1..10)
RunSettings ==
    {[countdownEnabled |-> FALSE, countdownSeconds |-> DEFAULT_SETTINGS.countdownSeconds]}
    \cup [countdownEnabled : {TRUE}, countdownSeconds : 1..MaxCountdownSeconds]

\* The screen has mounted and its load has not finished.  Opened for a
\* template, or to resume when nothing is stored.
InitRun ==
    /\ template \in RunTemplates
    /\ runtime = CreateIdleRuntime
    /\ now = Null
    /\ nextState = CreateIdleRuntime
    /\ transitions = 0
    /\ completed = FALSE
    /\ remaining = Null
    /\ pc = "screen"
    /\ params \in [resume : BOOLEAN]
    /\ settings \in RunSettings
    /\ countdownRemaining = 0
    /\ countdownTargetStatus = NullPhase
    /\ clock = 0
    /\ errorMessage = "null"
    /\ screen = "loading"
    /\ stored = Missing
    /\ appState = "active"
    /\ dirty = {}
    /\ lastChange = "none"
    /\ FreshRefs

\* the screen shows the timer and no effect is waiting to run
Interactive == screen = "run" /\ errorMessage = "null" /\ appState = "active" /\ dirty = {}

\* what a handler's state updates leave for the effects to see
DirtyAfter(newClock) == {"state"} \cup (IF newClock # clock THEN {"clock"} ELSE {})

\* ------------------------------------------------------------- load effect
IsExpiredInWholeSeconds(snapshot, e) ==
    (e - snapshot.updatedAt) \div 1000 > SNAPSHOT_MAX_AGE_MS \div 1000

\* the expiry test of line 608, with e what Date.now() returns
IsExpired(snapshot, e) == e - snapshot.updatedAt > SNAPSHOT_MAX_AGE_MS


\* lines 584-674; the load reads Date.now() three times: e for the expiry
\* test (608), u inside normalizeSnapshotToRuntime (629, 424) and t for the
\* clock (635, 659); the template of params.templateId is the stored one
Load(e, u, t) ==
    /\ screen = "loading"
    /\ screen' = "run"
    /\ LET snapshot == GetActiveSessionSnapshot(stored)
       IN  IF ~params.resume
             THEN /\ runtime' = CreateIdleRuntime
                  /\ countdownRemaining' = 0
                  /\ countdownTargetStatus' = NullPhase
                  /\ clock' = t
                  /\ dirty' = {"state", "clock"}
                  /\ lastChange' = "load"
                  /\ UNCHANGED <<errorMessage, stored, alerts>>
           ELSE IF snapshot = NoSnapshot
             THEN /\ errorMessage' = "No recoverable session found."
                  /\ UNCHANGED <<runtime, countdownRemaining, countdownTargetStatus, clock,
                                 stored, dirty, lastChange, alerts>>
           ELSE IF IsExpired(snapshot, e)
             THEN /\ stored' = Missing
                  /\ alerts' = Append(alerts, "Session Expired")
                  /\ errorMessage' = "No recoverable session found."
                  /\ UNCHANGED <<runtime, countdownRemaining, countdownTargetStatus, clock,
                                 dirty, lastChange>>
           ELSE IF snapshot.templateId # TemplateIdOf(template)
             THEN /\ stored' = Missing
                  /\ alerts' = Append(alerts, "Session Unavailable")
                  /\ errorMessage' = "Unable to restore this session."
                  /\ UNCHANGED <<runtime, countdownRemaining, countdownTargetStatus, clock,
                                 dirty, lastChange>>
           ELSE /\ runtime' = NormalizeSnapshotToRuntime(snapshot, u)
                /\ countdownRemaining' =
                      Max(0, Round(IF snapshot.countdownRemaining = Null THEN 0
                                   ELSE snapshot.countdownRemaining))
                /\ countdownTargetStatus' = snapshot.countdownTargetStatus
                /\ clock' = t
                /\ dirty' = {"state", "clock"}
                /\ lastChange' = "load"
                /\ UNCHANGED <<errorMessage, stored, alerts>>
    /\ UNCHANGED <<template, params, settings, appState, callVars, pending, isCompleting,
                   hasWarned, handoffs, invoked, account, cue>>

\* ------------------------------------------------------------------ timers
\* clock effect, lines 705-711: the interval runs while a countdown or a
\* phase runs
Tick(t) ==
    /\ Interactive
    /\ countdownRemaining > 0 \/ IsRunningStatus(runtime.status)
    /\ clock' = t
    /\ dirty' = IF t # clock THEN {"clock"} ELSE {}
    /\ UNCHANGED <<template, runtime, params, settings, countdownRemaining,
                   countdownTargetStatus, errorMessage, screen, stored, appState, lastChange,
                   callVars, asyncVars>>

CountdownStepSkipsToZero(prev) == 0

\* the updater of the countdown timeout, line 716
CountdownStep(prev) == Max(0, prev - 1)

\* countdown decrement effect, lines 713-719: the one-second timeout fires
CountdownDecrement ==
    /\ Interactive
    /\ countdownRemaining > 0
    /\ countdownRemaining' = CountdownStep(countdownRemaining)
    /\ dirty' = {"state"}
    /\ UNCHANGED <<template, runtime, params, settings, countdownTargetStatus, clock,
                   errorMessage, screen, stored, appState, lastChange, callVars, asyncVars>>

\* ---------------------------------------------------------------- handlers
\* what no handler touches
handlerFrame == <<template, params, settings, errorMessage, screen, stored, appState, callVars,
                  asyncVars>>

StartedPhaseCountsPause(rt, targetStatus, t) ==
    [rt EXCEPT !.status = targetStatus,
               !.phaseStartedAt = IF rt.pausedAt # Null THEN rt.pausedAt ELSE t,
               !.pausedAt = Null, !.pausedPhase = NullPhase]

\* the updater of startPhaseWithOptionalCountdown, lines 870-876
StartedPhase(rt, targetStatus, t) ==
    [rt EXCEPT !.status = targetStatus, !.phaseStartedAt = t,
               !.pausedAt = Null, !.pausedPhase = NullPhase]

StartPhaseCountdownAndRun(rt, targetStatus, t) ==
    /\ countdownTargetStatus' = targetStatus
    /\ countdownRemaining' = settings.countdownSeconds
    /\ runtime' = StartedPhase(rt, targetStatus, t)
    /\ clock' = t

StartPhaseAlwaysCountdown(rt, targetStatus, t) ==
    /\ countdownTargetStatus' = targetStatus
    /\ countdownRemaining' = settings.countdownSeconds
    /\ runtime' = rt
    /\ clock' = clock

\* startPhaseWithOptionalCountdown, lines 860-878, applied to the runtime
\* rt the handler has set so far
StartPhaseWithOptionalCountdown(rt, targetStatus, t) ==
    IF settings.countdownEnabled
      THEN /\ countdownTargetStatus' = targetStatus
           /\ countdownRemaining' = settings.countdownSeconds
           /\ runtime' = rt
           /\ clock' = clock
      ELSE /\ runtime' = StartedPhase(rt, targetStatus, t)
           /\ clock' = t
           /\ UNCHANGED <<countdownRemaining, countdownTargetStatus>>

HandleStartKeepsRemaining(t) ==
    /\ Interactive
    /\ runtime.status = "idle" /\ runtime.startedAt = Null
    /\ Len(template.exercises) # 0
    /\ StartPhaseWithOptionalCountdown(
           [runtime EXCEPT !.startedAt = t], "exercise", t)
    /\ dirty' = DirtyAfter(clock')
    /\ lastChange' = "start"
    /\ UNCHANGED handlerFrame

\* handleStart, lines 880-897; the Start button shows while the runtime is
\* idle and has no startedAt
HandleStart(t) ==
    /\ Interactive
    /\ runtime.status = "idle" /\ runtime.startedAt = Null
    /\ Len(template.exercises) # 0
    /\ StartPhaseWithOptionalCountdown(
           [status |-> "idle", currentExerciseIndex |-> 0, currentSetIndex |-> 0,
            remainingSeconds |-> template.exercises[1].durationSeconds,
            phaseStartedAt |-> Null, startedAt |-> t, pausedAt |-> Null,
            pausedPhase |-> NullPhase],
           "exercise", t)
    /\ dirty' = DirtyAfter(clock')
    /\ lastChange' = "start"
    /\ UNCHANGED handlerFrame

PausedStateKeepsAnchor(rt, t) ==
    [rt EXCEPT !.status = "paused",
               !.pausedAt = t,
               !.pausedPhase = IF IsRunningStatus(rt.status) THEN rt.status ELSE "exercise"]

PausedStateForgetsPhase(rt, t) ==
    [rt EXCEPT !.status = "paused",
               !.remainingSeconds = GetCurrentRemainingSeconds(rt, t),
               !.phaseStartedAt = Null,
               !.pausedAt = t,
               !.pausedPhase = "exercise"]

\* the runtime handlePause sets at t = Date.now()
PausedState(rt, t) ==
    [rt EXCEPT !.status = "paused",
               !.remainingSeconds = GetCurrentRemainingSeconds(rt, t),
               !.phaseStartedAt = Null,
               !.pausedAt = t,
               !.pausedPhase = IF IsRunningStatus(rt.status) THEN rt.status ELSE "exercise"]

\* handlePause, lines 899-912; the Pause button shows while a phase runs
\* and no countdown does
HandlePause(t) ==
    /\ Interactive
    /\ countdownRemaining = 0
    /\ IsRunningStatus(runtime.status)
    /\ runtime' = PausedState(runtime, t)
    /\ clock' = t
    /\ dirty' = DirtyAfter(t)
    /\ lastChange' = "pause"
    /\ UNCHANGED <<countdownRemaining, countdownTargetStatus>>
    /\ UNCHANGED handlerFrame

\* handleResume, lines 914-918; the Resume button shows while the runtime
\* is paused and no countdown runs
HandleResume(t) ==
    /\ Interactive
    /\ countdownRemaining = 0
    /\ runtime.status = "paused"
    /\ StartPhaseWithOptionalCountdown(
           runtime, IF runtime.pausedPhase = NullPhase THEN "exercise" ELSE runtime.pausedPhase, t)
    /\ dirty' = DirtyAfter(clock')
    /\ lastChange' = IF settings.countdownEnabled THEN lastChange ELSE "resume"
    /\ UNCHANGED handlerFrame

SkippedStateKeepsAnchor(rt, t) == [rt EXCEPT !.remainingSeconds = 0]

\* the runtime handleSkipCooldown sets at t = Date.now()
SkippedState(rt, t) == [rt EXCEPT !.remainingSeconds = 0, !.phaseStartedAt = t]

\* handleSkipCooldown, lines 925-933; the Skip button shows in a cooldown
\* while no countdown runs
HandleSkipCooldown(t) ==
    /\ Interactive
    /\ countdownRemaining = 0
    /\ runtime.status = "cooldown" /\ runtime.phaseStartedAt # Null
    /\ runtime' = SkippedState(runtime, t)
    /\ clock' = t
    /\ dirty' = DirtyAfter(t)
    /\ lastChange' = "skip"
    /\ UNCHANGED <<countdownRemaining, countdownTargetStatus>>
    /\ UNCHANGED handlerFrame

\* ----------------------------------------------------------------- effects
FinishedStateResetsRemaining(rt, targetStatus, t) ==
    [rt EXCEPT !.status = targetStatus, !.phaseStartedAt = t, !.remainingSeconds = 0,
               !.pausedAt = Null, !.pausedPhase = NullPhase]

FinishedStateWithoutAnchor(rt, targetStatus, t) ==
    [rt EXCEPT !.status = targetStatus, !.pausedAt = Null, !.pausedPhase = NullPhase]

\* the updater of the countdown finish effect, lines 725-731
FinishedState(rt, targetStatus, t) ==
    [rt EXCEPT !.status = targetStatus, !.phaseStartedAt = t,
               !.pausedAt = Null, !.pausedPhase = NullPhase]

CountdownFinishesEarly(target, cr) == target # NullPhase /\ cr <= 1

\* the guard of the countdown finish effect, line 722
CountdownFinishes(target, cr) == target # NullPhase /\ cr <= 0

\* the guard of the advance effect, line 739 (the template is loaded)
AdvanceEffectRuns(rt, cr) == IsRunningStatus(rt.status)

\* the cue of the advance effect for the move from rt to next, lines 748-758
AdvanceCue(rt, next) ==
    LET movedToNextExercise ==
            /\ next.status = "exercise"
            /\ \/ next.status # rt.status
               \/ next.currentExerciseIndex # rt.currentExerciseIndex
               \/ next.currentSetIndex # rt.currentSetIndex
    IN  IF movedToNextExercise THEN <<"exercise">>
        ELSE IF next.status = "cooldown" /\ rt.status # "cooldown" THEN <<"cooldown">>
        ELSE <<>>

\* the triggerHaptic calls of one pass of the effects: the countdown finish
\* effect's (724), then the advance effect's (755, 757) or, on completion,
\* completeSession's (549)
EffectCues(finishes, completes, moved, rt, next) ==
    (IF finishes THEN <<"countdown">> ELSE <<>>)
    \o (IF completes THEN <<"complete">>
        ELSE IF moved THEN AdvanceCue(rt, next)
        ELSE <<>>)

HandoffAtCompletionTime(tpl, rt, t) ==
    [templateId |-> TemplateIdOf(tpl), startedAt |-> t]

\* the params completeSession passes to /session/complete, lines 552-558,
\* with t what Date.now() returns
Handoff(tpl, rt, t) ==
    [templateId |-> TemplateIdOf(tpl),
     startedAt |-> IF rt.startedAt = Null THEN t ELSE rt.startedAt]

\* The passive effects of one commit, in the order the component declares
\* them, each reading the committed state; t is what Date.now() returns.
\*   persist effect (676-685) when the runtime or the countdown changed,
\*   countdown finish effect (721-735) when the countdown changed,
\*   advance effect (737-762) when the clock or the runtime changed;
\*   on completion completeSession (539-559) clears the store and leaves.
RunEffects(t) ==
    /\ screen = "run" /\ errorMessage = "null"
    /\ dirty # {}
    /\ LET persists == "state" \in dirty
           finishes == "state" \in dirty /\ CountdownFinishes(countdownTargetStatus, countdownRemaining)
           advances == AdvanceEffectRuns(runtime, countdownRemaining)
           adv == AdvanceRuntimeToNow(runtime, template, clock)
           completes == advances /\ adv.completed
           moved == advances /\ ~adv.completed /\ adv.nextState # runtime
       IN  /\ runtime' = IF moved THEN adv.nextState
                         ELSE IF finishes THEN FinishedState(runtime, countdownTargetStatus, t)
                         ELSE runtime
           /\ countdownTargetStatus' = IF finishes THEN NullPhase ELSE countdownTargetStatus
           /\ clock' = IF finishes THEN t ELSE clock
           /\ stored' = IF completes THEN Missing
                        ELSE IF persists
                          THEN PersistSnapshotNow(template, runtime, countdownRemaining,
                                                  countdownTargetStatus, t)
                        ELSE stored
           /\ screen' = IF completes THEN "complete" ELSE "run"
           /\ dirty' = IF completes THEN {}
                       ELSE (IF moved \/ finishes THEN {"state"} ELSE {})
                            \cup (IF clock' # clock THEN {"clock"} ELSE {})
           /\ lastChange' = IF moved THEN "advance"
                            ELSE IF finishes THEN "finish"
                            ELSE lastChange
           /\ isCompleting' = (isCompleting \/ completes)
           /\ handoffs' = IF completes
                            THEN Append(handoffs, Handoff(template, runtime, t))
                            ELSE handoffs
           /\ account' = IF moved THEN NoAccount ELSE account
           /\ cue' = EffectCues(finishes, completes, moved, runtime, adv.nextState)
    /\ UNCHANGED <<template, params, settings, countdownRemaining, errorMessage, appState,
                   pending, hasWarned, alerts, invoked, callVars>>

\* AppState effect, lines 687-703: the app leaves the foreground
Background(t) ==
    /\ Interactive
    /\ appState' = "background"
    /\ stored' = PersistSnapshotNow(template, runtime, countdownRemaining,
                                    countdownTargetStatus, t)
    /\ UNCHANGED <<template, runtime, params, settings, countdownRemaining,
                   countdownTargetStatus, clock, errorMessage, screen, dirty, lastChange,
                   callVars, asyncVars>>

\* AppState effect: the app returns to the foreground
Foreground(t) ==
    /\ screen = "run"
    /\ appState = "background"
    /\ appState' = "active"
    /\ clock' = t
    /\ dirty' = IF t # clock THEN {"clock"} ELSE {}
    /\ UNCHANGED <<template, runtime, params, settings, countdownRemaining,
                   countdownTargetStatus, errorMessage, screen, stored, lastChange, callVars,
                   asyncVars>>

\* The process ends (at any point, also before the effects of the last
\* commit ran) and the screen is opened again, to resume or not: component
\* state starts over, the store keeps what it holds.
Relaunch(resume) ==
    /\ screen \in {"run", "complete", "home"}
    /\ params' = [resume |-> resume]
    /\ runtime' = CreateIdleRuntime
    /\ countdownRemaining' = 0
    /\ countdownTargetStatus' = NullPhase
    /\ clock' = 0
    /\ errorMessage' = "null"
    /\ screen' = "loading"
    /\ appState' = "active"
    /\ dirty' = {}
    /\ lastChange' = "none"
    /\ isCompleting' = FALSE
    /\ hasWarned' = FALSE
    /\ alerts' = <<>>
    /\ handoffs' = <<>>
    /\ invoked' = "none"
    /\ account' = NoAccount
    /\ cue' = <<>>
    /\ UNCHANGED <<template, settings, stored, pending, callVars>>

NextRun ==
    \/ \E e \in WallTimes, u \in WallTimes, t \in WallTimes : Load(e, u, t)
    \/ \E t \in WallTimes : Tick(t)
    \/ CountdownDecrement
    \/ \E t \in StartTimes : HandleStart(t)
    \/ \E t \in WallTimes : HandlePause(t)
    \/ \E t \in WallTimes : HandleResume(t)
    \/ \E t \in WallTimes : HandleSkipCooldown(t)
    \/ \E t \in WallTimes : RunEffects(t)
    \/ \E t \in WallTimes : Background(t)
    \/ \E t \in WallTimes : Foreground(t)
    \/ \E resume \in BOOLEAN : Relaunch(resume)

SpecRun == InitRun /\ [][NextRun]_vars

\* ------------------------------------------------- resume over any content
\* What the store may hold when the screen is opened to resume: AsyncStorage
\* is shared with earlier builds and outlives the process, so the decoders
\* are given values the screen itself never writes.
\* a stored object with the snapshot's keys
RawSnapshot(status, phaseStartedAt, pausedAt, pausedPhase) ==
    [t |-> "obj",
     templateId |-> JStr("template-1"),
     currentExerciseIndex |-> JNum(0),
     currentSetIndex |-> JNum(0),
     status |-> status,
     remainingSeconds |-> JNum(1),
     phaseStartedAt |-> phaseStartedAt,
     pausedAt |-> pausedAt,
     startedAt |-> JNum(0),
     updatedAt |-> JNum(0),
     pausedPhase |-> pausedPhase,
     countdownRemaining |-> JAbsent,
     countdownTargetStatus |-> JAbsent]
\* `{}` and `[]`: objects without any of the keys
EmptyObject ==
    [t |-> "obj", templateId |-> JAbsent, currentExerciseIndex |-> JAbsent,
     currentSetIndex |-> JAbsent, status |-> JAbsent, remainingSeconds |-> JAbsent,
     phaseStartedAt |-> JAbsent, pausedAt |-> JAbsent, startedAt |-> JAbsent,
     updatedAt |-> JAbsent, pausedPhase |-> JAbsent, countdownRemaining |-> JAbsent,
     countdownTargetStatus |-> JAbsent]
\* every status with every kind of anchor, pause instant and paused phase
AnchorCases ==
    {RawSnapshot(JStr(s), p, a, ph) :
        s \in {"idle", "exercise", "cooldown", "paused"},
        p \in {JNull, JAbsent, JStr("0"), JNum(0)},
        a \in {JNull, JNum(500)},
        ph \in {JNull, JStr("exercise"), JStr("cooldown")}}
\* the keys normalizeActiveSnapshot requires
RequiredKeys ==
    {"status", "templateId", "currentExerciseIndex", "currentSetIndex",
     "remainingSeconds", "updatedAt"}
\* a running snapshot with one required key absent or replaced (updatedAt
\* stays a whole number of milliseconds when it is a number)
FieldCases ==
    {x \in {[RawSnapshot(JStr("exercise"), JNum(0), JNull, JNull) EXCEPT ![k] = v] :
                k \in RequiredKeys,
                v \in {JAbsent, JNull, JInf, JStr(""), JStr("done"), JStr("template-9"),
                       JNum(-1), JNum(1), JFrac(0)}} :
        x.updatedAt # JFrac(0) /\ x.updatedAt # JNum(-1)}
\* a paused snapshot with the optional countdown keys
CountdownCases ==
    {[RawSnapshot(JStr("paused"), JNull, JNum(0), JStr("exercise")) EXCEPT
            !.countdownRemaining = c, !.countdownTargetStatus = g] :
        c \in {JNum(2), JFrac(1), JStr("2")},
        g \in {JAbsent, JStr("exercise"), JStr("paused")}}
StoredValues ==
    {Missing, EmptyText, Unparsable, JNull, JNum(7), JStr("x"), EmptyObject}
        \cup AnchorCases \cup FieldCases \cup CountdownCases

\* the screen has mounted to resume (params.resume === '1')
InitRestore ==
    /\ template \in RunTemplates
    /\ runtime = CreateIdleRuntime
    /\ now = Null
    /\ nextState = CreateIdleRuntime
    /\ transitions = 0
    /\ completed = FALSE
    /\ remaining = Null
    /\ pc = "screen"
    /\ params = [resume |-> TRUE]
    /\ settings = DEFAULT_SETTINGS
    /\ countdownRemaining = 0
    /\ countdownTargetStatus = NullPhase
    /\ clock = 0
    /\ errorMessage = "null"
    /\ screen = "loading"
    /\ stored \in StoredValues
    /\ appState = "active"
    /\ dirty = {}
    /\ lastChange = "none"
    /\ FreshRefs

\* the values Date.now() returns on a resume: those of a running session,
\* and instants a day after the stored snapshots were written, a
\* millisecond before, at and a millisecond after SNAPSHOT_MAX_AGE_MS
RestoreTimes ==
    WallTimes \cup {SNAPSHOT_MAX_AGE_MS - 1, SNAPSHOT_MAX_AGE_MS, SNAPSHOT_MAX_AGE_MS + 1}

\* the load and the effects of the commits that follow it
NextRestore ==
    \/ \E e \in RestoreTimes, u \in RestoreTimes, t \in RestoreTimes : Load(e, u, t)
    \/ \E t \in RestoreTimes : RunEffects(t)

SpecRestore == InitRestore /\ [][NextRestore]_vars

\* ------------------------------------------------ requests in flight
\* The screen never awaits its snapshot writes (`void persistSnapshotNow()`)
\* and awaits the clears of completeSession and discardSession while it
\* stays mounted.  Here a request stays in `pending` until AsyncStorage is
\* done with it; requests are done in the order they were issued, and each
\* succeeds or fails.
MaxPending == 2

\* no handoff belongs to the request
NoHandoff == [templateId |-> "none", startedAt |-> Null]

\* AsyncStorage.setItem(ACTIVE_SESSION_KEY, value) and removeItem, issued by
\* persistSnapshotNow, completeSession or discardSession
SetItem(value) == [op |-> "set", by |-> "persist", value |-> value, handoff |-> NoHandoff]
RemoveItem(by, handoff) == [op |-> "remove", by |-> by, value |-> Missing, handoff |-> handoff]

PersistRequestAlwaysSaves(tpl, rt, cr, target, t) ==
    SetItem(JsonStringify(BuildSnapshot(tpl, rt, cr, target, t)))

\* the request persistSnapshotNow issues at t = Date.now(), lines 497-531
PersistRequest(tpl, rt, cr, target, t) ==
    IF rt.startedAt # Null \/ cr > 0
      THEN SetItem(JsonStringify(BuildSnapshot(tpl, rt, cr, target, t)))
      ELSE RemoveItem("persist", NoHandoff)

\* hasActiveSession, lines 764-765
HasActiveSession(rt, cr) == rt.startedAt # Null /\ (rt.status # "idle" \/ cr > 0)

\* the passive effects of one commit, as RunEffects, with the requests of
\* the persist effect and of completeSession left in flight; completeSession
\* returns at once when isCompletingRef is set
RunEffectsQueued(t) ==
    /\ screen = "run" /\ errorMessage = "null"
    /\ dirty # {}
    /\ LET persists == "state" \in dirty
           finishes == "state" \in dirty /\ CountdownFinishes(countdownTargetStatus, countdownRemaining)
           advances == AdvanceEffectRuns(runtime, countdownRemaining)
           adv == AdvanceRuntimeToNow(runtime, template, clock)
           completes == advances /\ adv.completed /\ ~isCompleting
           moved == advances /\ ~adv.completed /\ adv.nextState # runtime
           requests ==
              (IF persists
                 THEN <<PersistRequest(template, runtime, countdownRemaining,
                                       countdownTargetStatus, t)>>
                 ELSE <<>>)
              \o (IF completes THEN <<RemoveItem("complete", Handoff(template, runtime, t))>>
                  ELSE <<>>)
       IN  /\ Len(pending) + Len(requests) <= MaxPending
           /\ runtime' = IF moved THEN adv.nextState
                         ELSE IF finishes THEN FinishedState(runtime, countdownTargetStatus, t)
                         ELSE runtime
           /\ countdownTargetStatus' = IF finishes THEN NullPhase ELSE countdownTargetStatus
           /\ clock' = IF finishes THEN t ELSE clock
           /\ pending' = pending \o requests
           /\ isCompleting' = (isCompleting \/ completes)
           /\ dirty' = (IF moved \/ finishes THEN {"state"} ELSE {})
                          \cup (IF clock' # clock THEN {"clock"} ELSE {})
           /\ lastChange' = IF moved THEN "advance"
                            ELSE IF finishes THEN "finish"
                            ELSE lastChange
           /\ cue' = EffectCues(finishes, FALSE, moved, runtime, adv.nextState)
    /\ UNCHANGED <<template, params, settings, countdownRemaining, errorMessage, screen,
                   stored, appState, hasWarned, alerts, handoffs, invoked, account, callVars>>

\* AppState effect, lines 687-703: the app leaves the foreground and the
\* snapshot write is left in flight
BackgroundQueued(t) ==
    /\ Interactive
    /\ Len(pending) < MaxPending
    /\ appState' = "background"
    /\ pending' = Append(pending, PersistRequest(template, runtime, countdownRemaining,
                                                 countdownTargetStatus, t))
    /\ UNCHANGED <<template, runtime, params, settings, countdownRemaining,
                   countdownTargetStatus, clock, errorMessage, screen, stored, dirty,
                   lastChange, isCompleting, hasWarned, alerts, handoffs, invoked, account, cue,
                   callVars>>

\* confirmDiscardAndLeave with 'Discard' pressed, lines 561-582: reached by
\* the Stop button (handleStop, 920-923) and by leaving the screen
\* (beforeRemove, 767-776) while hasActiveSession; discardSession issues its
\* clear
ConfirmDiscard ==
    /\ Interactive
    /\ HasActiveSession(runtime, countdownRemaining)
    /\ \A i \in DOMAIN pending : pending[i].by # "discard"
    /\ Len(pending) < MaxPending
    /\ pending' = Append(pending, RemoveItem("discard", NoHandoff))
    /\ UNCHANGED <<template, runtime, params, settings, countdownRemaining,
                   countdownTargetStatus, clock, errorMessage, screen, stored, appState, dirty,
                   lastChange, isCompleting, hasWarned, alerts, handoffs, invoked, account, cue,
                   callVars>>

\* what resumes when the oldest request is done: completeSession goes on
\* to router.replace('/session/complete') (547-558), discardSession to
\* router.replace('/') (567-568), persistSnapshotNow returns
Continuation(request) ==
    /\ screen' = IF request.by = "complete" THEN "complete"
                 ELSE IF request.by = "discard" THEN "home"
                 ELSE screen
    /\ handoffs' = IF request.by = "complete" THEN Append(handoffs, request.handoff)
                   ELSE handoffs
    /\ dirty' = IF request.by = "persist" THEN dirty ELSE {}
    /\ cue' = IF request.by = "complete" THEN <<"complete">> ELSE cue

\* AsyncStorage is done with the oldest request
StorageDone ==
    /\ pending # <<>>
    /\ stored' = Head(pending).value
    /\ pending' = Tail(pending)
    /\ Continuation(Head(pending))
    /\ UNCHANGED <<template, runtime, params, settings, countdownRemaining,
                   countdownTargetStatus, clock, errorMessage, appState, lastChange,
                   isCompleting, hasWarned, alerts, invoked, account, callVars>>

SafeStorageWarningEveryTime ==
    /\ hasWarned' = TRUE
    /\ alerts' = Append(alerts, "Storage Warning")

\* safeStorageWarning, lines 461-468
SafeStorageWarning ==
    /\ hasWarned' = TRUE
    /\ alerts' = IF hasWarned THEN alerts ELSE Append(alerts, "Storage Warning")

\* AsyncStorage rejects the oldest request: the catch of its caller
\* (502-504, 528-530, 545-547, 564-566) warns and the caller goes on
StorageFails ==
    /\ pending # <<>>
    /\ pending' = Tail(pending)
    /\ SafeStorageWarning
    /\ Continuation(Head(pending))
    /\ UNCHANGED <<template, runtime, params, settings, countdownRemaining,
                   countdownTargetStatus, clock, errorMessage, stored, appState, lastChange,
                   isCompleting, invoked, account, callVars>>

\* the load reads the store once the requests before it are done
LoadQueued(e, u, t) == pending = <<>> /\ Load(e, u, t)

\* the session the requests are followed on
QueueTemplates == {[exercises |-> <<Exercise(1)>>, setsCount |-> 1, cooldownSeconds |-> 1]}
QueueSettings ==
    {[countdownEnabled |-> FALSE, countdownSeconds |-> DEFAULT_SETTINGS.countdownSeconds],
     [countdownEnabled |-> TRUE, countdownSeconds |-> 1]}
\* the values Date.now() returns there
QueueTimes == {0, 1000}

\* the screen has mounted for the template; nothing is stored
InitQueue ==
    /\ template \in QueueTemplates
    /\ runtime = CreateIdleRuntime
    /\ now = Null
    /\ nextState = CreateIdleRuntime
    /\ transitions = 0
    /\ completed = FALSE
    /\ remaining = Null
    /\ pc = "screen"
    /\ params = [resume |-> FALSE]
    /\ settings \in QueueSettings
    /\ countdownRemaining = 0
    /\ countdownTargetStatus = NullPhase
    /\ clock = 0
    /\ errorMessage = "null"
    /\ screen = "loading"
    /\ stored = Missing
    /\ appState = "active"
    /\ dirty = {}
    /\ lastChange = "none"
    /\ FreshRefs

\* one visit of the screen, from its load to its leaving by completion or
\* discard, and the requests it leaves behind
NextQueue ==
    \/ \E t \in QueueTimes : LoadQueued(t, t, t)
    \/ \E t \in QueueTimes : Tick(t)
    \/ CountdownDecrement
    \/ HandleStart(0)
    \/ \E t \in QueueTimes : HandlePause(t)
    \/ \E t \in QueueTimes : HandleResume(t)
    \/ \E t \in QueueTimes : HandleSkipCooldown(t)
    \/ \E t \in QueueTimes : RunEffectsQueued(t)
    \/ \E t \in QueueTimes : BackgroundQueued(t)
    \/ \E t \in QueueTimes : Foreground(t)
    \/ ConfirmDiscard
    \/ StorageDone
    \/ StorageFails

SpecQueue == InitQueue /\ [][NextQueue]_vars

\* ------------------------------------------------ templates never validated
\* loadState (workout-storage.ts:38-50) hands out whatever array the
\* templates key holds, and the screen's load takes the template as it is:
\* the run screen can be opened for a template that create.tsx would not
\* have saved.
\* what canSave (create.tsx:347-361) refuses, as far as the run depends on it
IsInvalidTemplate(tpl) ==
    \/ Len(tpl.exercises) = 0
    \/ \E i \in 1..Len(tpl.exercises) : tpl.exercises[i].durationSeconds <= 0
    \/ tpl.setsCount <= 0

\* no exercises; an exercise of 0 s among two, over two sets with a
\* cooldown; no sets
InvalidTemplates ==
    {[exercises |-> <<>>, setsCount |-> 1, cooldownSeconds |-> 0],
     [exercises |-> <<Exercise(0), Exercise(1)>>, setsCount |-> 2, cooldownSeconds |-> 1],
     [exercises |-> <<Exercise(1)>>, setsCount |-> 0, cooldownSeconds |-> 1]}

\* the screen has mounted for such a template; nothing is stored
InitInvalid ==
    /\ template \in InvalidTemplates
    /\ runtime = CreateIdleRuntime
    /\ now = Null
    /\ nextState = CreateIdleRuntime
    /\ transitions = 0
    /\ completed = FALSE
    /\ remaining = Null
    /\ pc = "screen"
    /\ params = [resume |-> FALSE]
    /\ settings \in RunSettings
    /\ countdownRemaining = 0
    /\ countdownTargetStatus = NullPhase
    /\ clock = 0
    /\ errorMessage = "null"
    /\ screen = "loading"
    /\ stored = Missing
    /\ appState = "active"
    /\ dirty = {}
    /\ lastChange = "none"
    /\ FreshRefs

SpecInvalid == InitInvalid /\ [][NextRun]_vars

\* ------------------------------------------------ handlers called anywhere
\* The handlers as functions of the state they are called in, whether or
\* not their button shows: each starts with a guard that returns.
\* what a handler that returns leaves alone
returnFrame == <<template, runtime, params, settings, countdownRemaining,
                 countdownTargetStatus, clock, errorMessage, screen, stored, appState, dirty,
                 lastChange, pending, isCompleting, hasWarned, alerts, handoffs, account, cue,
                 callVars>>

\* what a handler that goes on leaves alone
invokeFrame == <<template, params, settings, errorMessage, screen, stored, appState, pending,
                 isCompleting, hasWarned, alerts, handoffs, account, cue, callVars>>

\* the handler returned at its guard
Returned(handler) == invoked' = handler /\ UNCHANGED returnFrame

PauseReturnsWhenIdle(rt) == rt.status = "idle"

\* the guard of handlePause, line 900
PauseReturns(rt) == ~IsRunningStatus(rt.status)

\* the guard of handleResume, line 915
ResumeReturns(rt) == rt.status # "paused"

\* the guard of handleSkipCooldown, line 926
SkipReturns(rt) == rt.status # "cooldown" \/ rt.phaseStartedAt = Null

\* the guard of handleStop, line 921
StopReturns(rt, cr) == ~HasActiveSession(rt, cr)

\* handlePause, lines 899-912
InvokePause(t) ==
    /\ Interactive
    /\ IF PauseReturns(runtime)
         THEN Returned("pause")
         ELSE /\ runtime' = PausedState(runtime, t)
              /\ clock' = t
              /\ dirty' = DirtyAfter(t)
              /\ lastChange' = "pause"
              /\ invoked' = "none"
              /\ UNCHANGED <<countdownRemaining, countdownTargetStatus>>
              /\ UNCHANGED invokeFrame

\* handleResume, lines 914-918
InvokeResume(t) ==
    /\ Interactive
    /\ IF ResumeReturns(runtime)
         THEN Returned("resume")
         ELSE /\ StartPhaseWithOptionalCountdown(
                     runtime,
                     IF runtime.pausedPhase = NullPhase THEN "exercise" ELSE runtime.pausedPhase,
                     t)
              /\ dirty' = DirtyAfter(clock')
              /\ lastChange' = IF settings.countdownEnabled THEN lastChange ELSE "resume"
              /\ invoked' = "none"
              /\ UNCHANGED invokeFrame

\* handleSkipCooldown, lines 925-933
InvokeSkipCooldown(t) ==
    /\ Interactive
    /\ IF SkipReturns(runtime)
         THEN Returned("skip")
         ELSE /\ runtime' = SkippedState(runtime, t)
              /\ clock' = t
              /\ dirty' = DirtyAfter(t)
              /\ lastChange' = "skip"
              /\ invoked' = "none"
              /\ UNCHANGED <<countdownRemaining, countdownTargetStatus>>
              /\ UNCHANGED invokeFrame

\* handleStop, lines 920-923, with 'Discard' pressed in the dialog of
\* confirmDiscardAndLeave (571-582) and discardSession (561-569) run to its
\* end
InvokeStop ==
    /\ Interactive
    /\ IF StopReturns(runtime, countdownRemaining)
         THEN Returned("stop")
         ELSE /\ stored' = Missing
              /\ screen' = "home"
              /\ invoked' = "none"
              /\ UNCHANGED <<template, runtime, params, settings, countdownRemaining,
                             countdownTargetStatus, clock, errorMessage, appState, dirty,
                             lastChange, pending, isCompleting, hasWarned, alerts, handoffs,
                             account, cue, callVars>>

\* the screen has mounted for the template; nothing is stored
InitInvoke ==
    /\ template \in QueueTemplates
    /\ runtime = CreateIdleRuntime
    /\ now = Null
    /\ nextState = CreateIdleRuntime
    /\ transitions = 0
    /\ completed = FALSE
    /\ remaining = Null
    /\ pc = "screen"
    /\ params = [resume |-> FALSE]
    /\ settings \in QueueSettings
    /\ countdownRemaining = 0
    /\ countdownTargetStatus = NullPhase
    /\ clock = 0
    /\ errorMessage = "null"
    /\ screen = "loading"
    /\ stored = Missing
    /\ appState = "active"
    /\ dirty = {}
    /\ lastChange = "none"
    /\ FreshRefs

\* one visit of the screen with every handler called in every state
NextInvoke ==
    \/ \E t \in QueueTimes : Load(t, t, t)
    \/ \E t \in QueueTimes : Tick(t)
    \/ CountdownDecrement
    \/ HandleStart(0)
    \/ \E t \in QueueTimes : InvokePause(t)
    \/ \E t \in QueueTimes : InvokeResume(t)
    \/ \E t \in QueueTimes : InvokeSkipCooldown(t)
    \/ InvokeStop
    \/ \E t \in QueueTimes : RunEffects(t)

SpecInvoke == InitInvoke /\ [][NextInvoke]_vars

\* ---------------------------------------------------- time spent in a phase
\* The session with an account kept of the phase it is in: the wall time
\* the phase was in a running status up to its last pause, and how often
\* it was paused.  The advance effect opens a new account with each phase.
\* pauses of one phase that are followed
MaxPauses == 2

\* what a counted pause leaves alone
countFrame == <<template, params, settings, errorMessage, screen, stored, appState, pending,
                isCompleting, hasWarned, alerts, handoffs, invoked, cue, callVars>>

\* the pause at t is taken no later than the boundary of the phase
IsPauseOnTime(rt, t) == t <= rt.phaseStartedAt + rt.remainingSeconds * 1000

\* handlePause, lines 899-912, at t = Date.now(): the phase ran from its
\* anchor to t
PauseCounted(t) ==
    /\ Interactive
    /\ countdownRemaining = 0
    /\ IsRunningStatus(runtime.status)
    /\ account.pauses < MaxPauses
    /\ runtime' = PausedState(runtime, t)
    /\ clock' = t
    /\ dirty' = DirtyAfter(t)
    /\ lastChange' = "pause"
    /\ account' = [ranMs |-> account.ranMs + (t - runtime.phaseStartedAt),
                   pauses |-> account.pauses + 1,
                   forward |-> account.forward /\ runtime.phaseStartedAt <= t,
                   onTime |-> account.onTime /\ IsPauseOnTime(runtime, t)]
    /\ UNCHANGED <<countdownRemaining, countdownTargetStatus>>
    /\ UNCHANGED countFrame

\* one exercise of two seconds with a cooldown of one
PauseTemplates ==
    {[exercises |-> <<Exercise(2)>>, setsCount |-> 1, cooldownSeconds |-> 1]}

\* the instants Date.now() returns
PauseTimes == {0, 500, 1000, 1500, 3000}

\* the screen has mounted for the template; nothing is stored
InitPause ==
    /\ template \in PauseTemplates
    /\ runtime = CreateIdleRuntime
    /\ now = Null
    /\ nextState = CreateIdleRuntime
    /\ transitions = 0
    /\ completed = FALSE
    /\ remaining = Null
    /\ pc = "screen"
    /\ params = [resume |-> FALSE]
    /\ settings \in QueueSettings
    /\ countdownRemaining = 0
    /\ countdownTargetStatus = NullPhase
    /\ clock = 0
    /\ errorMessage = "null"
    /\ screen = "loading"
    /\ stored = Missing
    /\ appState = "active"
    /\ dirty = {}
    /\ lastChange = "none"
    /\ FreshRefs

\* one visit of the screen with ticks, pauses and resumes
NextPause ==
    \/ \E t \in PauseTimes : Load(t, t, t)
    \/ \E t \in PauseTimes : Tick(t)
    \/ CountdownDecrement
    \/ HandleStart(0)
    \/ \E t \in PauseTimes : PauseCounted(t)
    \/ \E t \in PauseTimes : HandleResume(t)
    \/ \E t \in PauseTimes : RunEffects(t)

SpecPause == InitPause /\ [][NextPause]_vars

\* ------------------------------------------------ the session run to its end
\* The session with a wall clock that does not go back and a user who
\* starts, pauses each phase at most MaxPauses times, resumes and never
\* stops.  Wall time is followed in half seconds while a phase runs and
\* across each handler and effect; the time that passes while no phase
\* runs (a countdown, a pause) moves no boundary and is left out but for
\* the half second a resume or a countdown's end may read later.
\* half seconds of wall time before those the pauses add
MaxLiveTicks == 9

\* the instants Date.now() returns: each pause of the two phases may lose
\* half a second and delay the resume and the countdown's end by as much
LiveTimes == {k * 500 : k \in 0..(MaxLiveTicks + 6 * MaxPauses)}

\* what Date.now() returns when the last read was c
LaterTimes(c) == {t \in LiveTimes : c <= t /\ t <= c + 500}

\* the interval's setClock, line 708, half a second on in a running phase
TickOn == \E t \in LaterTimes(clock) : t > clock /\ IsRunningStatus(runtime.status) /\ Tick(t)

NextLive ==
    \/ Load(0, 0, 0)
    \/ TickOn
    \/ CountdownDecrement
    \/ \E t \in LaterTimes(clock) : HandleStart(t)
    \/ \E t \in LaterTimes(clock) : PauseCounted(t)
    \/ \E t \in LaterTimes(clock) : HandleResume(t)
    \/ \E t \in LaterTimes(clock) : RunEffects(t)

\* the interval (705-711) and the countdown's timeout (713-719) fire, React
\* runs the effects of each commit, and the user resumes after a pause
LiveFairness ==
    /\ WF_vars(TickOn)
    /\ WF_vars(CountdownDecrement)
    /\ WF_vars(\E t \in LaterTimes(clock) : RunEffects(t))
    /\ WF_vars(\E t \in LaterTimes(clock) : HandleResume(t))

SpecLive == InitPause /\ [][NextLive]_vars /\ LiveFairness

\* ============================================================== properties
\* Vocabulary of the properties, stated on the fields themselves.
IsRunning(s) == s.status \in {"exercise", "cooldown"} /\ s.phaseStartedAt # Null
Boundary(s) == s.phaseStartedAt + s.remainingSeconds * 1000
AtLastExercise(tpl, s) ==
    /\ s.currentExerciseIndex = Len(tpl.exercises) - 1
    /\ s.currentSetIndex = tpl.setsCount - 1
\* no phase follows s: the last cooldown, or the last exercise of a template without cooldown
IsFinalPhase(tpl, s) ==
    AtLastExercise(tpl, s) /\ (s.status = "cooldown" \/ tpl.cooldownSeconds = 0)
\* the phase that follows s, started at t
SuccessorPhase(tpl, s, t) ==
    IF s.status = "exercise" /\ tpl.cooldownSeconds > 0
      THEN [s EXCEPT !.status = "cooldown", !.remainingSeconds = tpl.cooldownSeconds,
                     !.phaseStartedAt = t]
    ELSE IF s.currentExerciseIndex + 1 < Len(tpl.exercises)
      THEN [s EXCEPT !.status = "exercise",
                     !.currentExerciseIndex = s.currentExerciseIndex + 1,
                     !.remainingSeconds = tpl.exercises[s.currentExerciseIndex + 2].durationSeconds,
                     !.phaseStartedAt = t]
      ELSE [s EXCEPT !.status = "exercise",
                     !.currentExerciseIndex = 0,
                     !.currentSetIndex = s.currentSetIndex + 1,
                     !.remainingSeconds = tpl.exercises[1].durationSeconds,
                     !.phaseStartedAt = t]
\* D = setsCount * sum over exercises of (durationSeconds + cooldownSeconds)
SessionSeconds(tpl) == tpl.setsCount * SumDurations(tpl, Len(tpl.exercises))
IsInitialState(tpl, s) ==
    /\ s.status = "exercise"
    /\ s.currentExerciseIndex = 0
    /\ s.currentSetIndex = 0
    /\ s.remainingSeconds = tpl.exercises[1].durationSeconds
    /\ s.phaseStartedAt # Null
\* an advanceRuntimeToNow call on a running input has returned
AdvanceReturned == pc = "done" /\ IsRunning(runtime)
\* the step is one phase transition of the loop
IsTransitionStep == pc = "loop" /\ nextState' # nextState

\* C1 as stated: for every running state with remainingSeconds >= 0 and every
\* now < phaseStartedAt + remainingSeconds*1000 the call returns the input
\* unchanged and completed = false.
C1_NoOpAdvanceAsStated ==
    (AdvanceReturned /\ runtime.remainingSeconds >= 0 /\ now < Boundary(runtime))
        => (nextState = runtime /\ completed = FALSE)

\* C1 amended: for every running state with remainingSeconds > 0 and every
\* now < phaseStartedAt + remainingSeconds*1000 the call returns the input
\* unchanged and completed = false (a phase with remainingSeconds = 0 is over
\* at every now, also one earlier than phaseStartedAt).
C1_NoOpAdvance ==
    (AdvanceReturned /\ runtime.remainingSeconds > 0 /\ now < Boundary(runtime))
        => (nextState = runtime /\ completed = FALSE /\ transitions = 0)

C1_Witness ==
    /\ AdvanceReturned
    /\ runtime.remainingSeconds = 2
    /\ now = runtime.phaseStartedAt + 1500
    /\ nextState = runtime

\* C2: advancing a running, non-final phase to exactly its boundary applies
\* exactly one transition: the result is the successor phase, started at now
\* with its full configured duration, and completed = false.
C2_BoundaryExactness ==
    (AdvanceReturned /\ now = Boundary(runtime) /\ ~IsFinalPhase(template, runtime))
        => /\ transitions = 1
           /\ completed = FALSE
           /\ nextState = SuccessorPhase(template, runtime, now)
           /\ nextState.remainingSeconds =
                PhaseDuration(template, nextState.status, nextState.currentExerciseIndex)

C2_Witness ==
    /\ AdvanceReturned
    /\ now = Boundary(runtime)
    /\ now > runtime.phaseStartedAt
    /\ ~IsFinalPhase(template, runtime)
    /\ transitions = 1

\* C3: every phase the loop enters starts at the previous phase's
\* phaseStartedAt + remainingSeconds*1000, whatever now is; a phase entered in
\* this call is followed exactly its configured duration later.
C3_NoDrift ==
    [][IsTransitionStep =>
        /\ nextState'.phaseStartedAt = nextState.phaseStartedAt + nextState.remainingSeconds * 1000
        /\ (transitions >= 1 =>
              nextState'.phaseStartedAt - nextState.phaseStartedAt =
                1000 * PhaseDuration(template, nextState.status, nextState.currentExerciseIndex))]_vars

C3_Witness ==
    /\ pc = "loop"
    /\ transitions >= 3
    /\ now > nextState.phaseStartedAt + 500
    /\ now < Boundary(nextState)

\* C4: one call on the initial state with now >= t0 + D*1000 returns
\* completed = true, however many phases it skips.
C4_CompletesInOneCall ==
    (AdvanceReturned /\ IsInitialState(template, runtime)
       /\ now >= runtime.phaseStartedAt + SessionSeconds(template) * 1000)
        => completed = TRUE

C4_Witness ==
    /\ AdvanceReturned
    /\ template = TenFive
    /\ IsInitialState(template, runtime)
    /\ now = 1000000
    /\ SessionSeconds(template) = 60
    /\ transitions = 7
    /\ completed = TRUE

\* C5: boundary policy. A crossed boundary leads (a) from an exercise with
\* cooldownSeconds > 0 to the cooldown, same indices, cooldownSeconds left;
\* (b) otherwise to the next exercise of the set with its duration; (c) else to
\* exercise 0 of the next set; (d) else to completed = true. No cooldown is
\* entered when cooldownSeconds = 0. Push-up/squat example: cooldown with 20 s
\* left at 45000 ms, second exercise of the first set with 45 s left at 65000 ms.
C5_BoundaryPolicy ==
    /\ [][IsTransitionStep =>
            /\ nextState' = SuccessorPhase(template, nextState, Boundary(nextState))
            /\ ~IsFinalPhase(template, nextState)
            /\ (template.cooldownSeconds = 0 => nextState'.status # "cooldown")]_vars
    /\ [][(pc = "loop" /\ transitions < MAX_TRANSITIONS_PER_TICK /\ pc' = "done")
            => (completed' = TRUE <=>
                  /\ IsFinalPhase(template, nextState)
                  /\ Max(0, now - nextState.phaseStartedAt) \div 1000 >= nextState.remainingSeconds)]_vars
    /\ []((AdvanceReturned /\ template = PushUpSquat /\ runtime = StartState(PushUpSquat, 0))
            => /\ (now = 45000 =>
                     nextState = [runtime EXCEPT !.status = "cooldown", !.remainingSeconds = 20,
                                                 !.phaseStartedAt = 45000])
               /\ (now = 65000 =>
                     nextState = [runtime EXCEPT !.currentExerciseIndex = 1, !.remainingSeconds = 45,
                                                 !.phaseStartedAt = 65000]))

C5_Witness ==
    /\ AdvanceReturned
    /\ template = PushUpSquat
    /\ now = 65000
    /\ nextState.status = "exercise"
    /\ nextState.currentExerciseIndex = 1
    /\ nextState.currentSetIndex = 0
    /\ completed = FALSE

\* C6 as stated: completed = true only with the result at the last exercise of
\* the last set, in cooldown if cooldownSeconds > 0 (exercise otherwise), and
\* that phase's boundary <= now.
C6_CompletedOnlyAtEndAsStated ==
    (AdvanceReturned /\ completed = TRUE)
        => /\ AtLastExercise(template, nextState)
           /\ nextState.status = (IF template.cooldownSeconds > 0 THEN "cooldown" ELSE "exercise")
           /\ Boundary(nextState) <= now

\* C6 amended: completed = true only when the call has applied 512
\* transitions, or the result is at the last exercise of the last set, in
\* cooldown if cooldownSeconds > 0 (exercise otherwise), and that phase is over
\* at now: its boundary is <= now or its remainingSeconds is 0.
C6_CompletedOnlyAtEnd ==
    (AdvanceReturned /\ completed = TRUE)
        => \/ transitions = MAX_TRANSITIONS_PER_TICK
           \/ /\ AtLastExercise(template, nextState)
              /\ nextState.status = (IF template.cooldownSeconds > 0 THEN "cooldown" ELSE "exercise")
              /\ (Boundary(nextState) <= now \/ nextState.remainingSeconds = 0)

C6_Witness ==
    /\ AdvanceReturned
    /\ completed = TRUE
    /\ transitions >= 2
    /\ transitions < MAX_TRANSITIONS_PER_TICK
    /\ IsFinalPhase(template, nextState)
    /\ Boundary(nextState) <= now

\* C7: a call terminates within 512 transitions: every loop step returns or
\* counts one more transition, the count never exceeds 512, the loop is never
\* stuck, and a call that has applied 512 transitions returns completed = true.
C7_IterationCap ==
    /\ [](transitions <= MAX_TRANSITIONS_PER_TICK)
    /\ [][pc = "loop" => (pc' = "done" \/ (pc' = "loop" /\ transitions' = transitions + 1))]_vars
    /\ [](pc = "loop" => ENABLED (LoopPending \/ LoopTransition \/ LoopNoNextPhase \/ LoopCapReached))
    /\ [][(pc = "loop" /\ transitions = MAX_TRANSITIONS_PER_TICK)
            => (pc' = "done" /\ completed' = TRUE /\ nextState' = nextState)]_vars

C7_Witness ==
    /\ pc = "done"
    /\ transitions = MAX_TRANSITIONS_PER_TICK
    /\ completed = TRUE
    /\ ~IsFinalPhase(template, nextState)

\* C8: on a state whose status is idle or paused, or whose phaseStartedAt is
\* null, the call returns the input with every field unchanged and
\* completed = false.
C8_NotRunningIsNoOp ==
    (pc = "done" /\ (runtime.status \in {"idle", "paused"} \/ runtime.phaseStartedAt = Null))
        => (nextState = runtime /\ completed = FALSE /\ transitions = 0)

C8_Witness ==
    /\ pc = "done"
    /\ runtime.status = "paused"
    /\ now > runtime.pausedAt + 2000
    /\ nextState = runtime

\* C9: a call on a running state that returns completed = false returns a
\* state pending at now: floor(max(0, now - phaseStartedAt)/1000) < remainingSeconds.
C9_FullReconciliation ==
    (AdvanceReturned /\ completed = FALSE)
        => Max(0, now - nextState.phaseStartedAt) \div 1000 < nextState.remainingSeconds

C9_Witness ==
    /\ AdvanceReturned
    /\ completed = FALSE
    /\ transitions >= 2
    /\ now >= nextState.phaseStartedAt + 1000

\* C10 as stated: the result is remainingSeconds when not running, else
\* max(0, remainingSeconds - floor((now - phaseStartedAt)/1000)); it lies in
\* [0, remainingSeconds] and equals remainingSeconds when now < phaseStartedAt.
C10_RemainingAsStated ==
    pc = "queried" =>
        /\ remaining = (IF IsRunning(runtime)
                          THEN Max(0, runtime.remainingSeconds
                                        - ((now - runtime.phaseStartedAt) \div 1000))
                          ELSE runtime.remainingSeconds)
        /\ remaining \in 0..runtime.remainingSeconds
        /\ (IsRunning(runtime) /\ now < runtime.phaseStartedAt
              => remaining = runtime.remainingSeconds)

\* C10 amended: the query leaves the state as it is and returns
\* remainingSeconds when not running, else
\* max(0, remainingSeconds - floor(max(0, now - phaseStartedAt)/1000)); the
\* result lies in [0, remainingSeconds], does not increase as now increases,
\* and equals remainingSeconds when now < phaseStartedAt.
C10_Remaining ==
    /\ [](pc = "queried" =>
            /\ remaining = (IF IsRunning(runtime)
                              THEN Max(0, runtime.remainingSeconds
                                            - (Max(0, now - runtime.phaseStartedAt) \div 1000))
                              ELSE runtime.remainingSeconds)
            /\ remaining \in 0..runtime.remainingSeconds
            /\ (IsRunning(runtime) /\ now < runtime.phaseStartedAt
                  => remaining = runtime.remainingSeconds))
    /\ [][pc' = "queried" => runtime' = runtime]_vars
    /\ [][(pc = "queried" /\ pc' = "queried" /\ now' >= now) => remaining' <= remaining]_vars

C10_Witness ==
    /\ pc = "queried"
    /\ IsRunning(runtime)
    /\ now >= runtime.phaseStartedAt + 1500
    /\ remaining > 0
    /\ remaining < runtime.remainingSeconds

\* ================================================= properties of the screen
\* Steps of SpecRun, told apart by what they leave behind.
\* handlePause ran: a phase was running and the runtime was last set by Pause
IsPauseStep == IsRunningStatus(runtime.status) /\ lastChange' = "pause"
\* the fields no handler but Start may touch
SamePosition(a, b) ==
    /\ a.currentExerciseIndex = b.currentExerciseIndex
    /\ a.currentSetIndex = b.currentSetIndex
    /\ a.startedAt = b.startedAt

\* C11: Pause at time now from a running state s yields status = paused,
\* remainingSeconds = getCurrentRemainingSeconds(s, now) computed from s,
\* phaseStartedAt = null, pausedAt = now and pausedPhase = s.status, and
\* leaves currentExerciseIndex, currentSetIndex and startedAt as they were
\* (now is the instant the handler also stores in clock).
C11_Pause ==
    [][IsPauseStep =>
         /\ runtime'.status = "paused"
         /\ runtime'.remainingSeconds = GetCurrentRemainingSeconds(runtime, clock')
         /\ runtime'.phaseStartedAt = Null
         /\ runtime'.pausedAt = clock'
         /\ runtime'.pausedPhase = runtime.status
         /\ SamePosition(runtime', runtime)]_vars

\* a cooldown was paused after part of it had elapsed
C11_Witness ==
    /\ lastChange = "pause"
    /\ runtime.status = "paused"
    /\ runtime.pausedPhase = "cooldown"
    /\ runtime.pausedAt = clock
    /\ runtime.remainingSeconds < template.cooldownSeconds

\* handleResume ran: the runtime was paused, and it was set by Resume or a
\* countdown began
IsResumeStep ==
    /\ runtime.status = "paused"
    /\ screen = "run"
    /\ lastChange' = "resume" \/ (countdownRemaining = 0 /\ countdownRemaining' > 0)

\* C12: Resume from status paused.  With the countdown enabled,
\* countdownTargetStatus becomes pausedPhase, countdownRemaining the
\* configured seconds and the runtime stays paused (no field changes); with
\* it disabled the runtime gets status = pausedPhase, phaseStartedAt = now,
\* pausedAt = null, pausedPhase = null at once and no countdown begins.
\* Either way remainingSeconds and the indices keep their values.
C12_Resume ==
    [][IsResumeStep =>
         /\ settings.countdownEnabled =>
              /\ countdownTargetStatus' = runtime.pausedPhase
              /\ countdownRemaining' = settings.countdownSeconds
              /\ runtime' = runtime
         /\ ~settings.countdownEnabled =>
              /\ runtime'.status = runtime.pausedPhase
              /\ runtime'.phaseStartedAt = clock'
              /\ runtime'.pausedAt = Null
              /\ runtime'.pausedPhase = NullPhase
              /\ countdownRemaining' = 0
              /\ countdownTargetStatus' = countdownTargetStatus
         /\ runtime'.remainingSeconds = runtime.remainingSeconds
         /\ SamePosition(runtime', runtime)]_vars

\* a cooldown paused part-way was resumed with the countdown disabled
C12_Witness ==
    /\ lastChange = "resume"
    /\ ~settings.countdownEnabled
    /\ runtime.status = "cooldown"
    /\ runtime.phaseStartedAt = clock
    /\ runtime.remainingSeconds < template.cooldownSeconds
    /\ dirty # {}

\* an exercise paused part-way is being resumed through a countdown
C12_WitnessCountdown ==
    /\ settings.countdownEnabled
    /\ runtime.status = "paused"
    /\ countdownTargetStatus = "exercise"
    /\ countdownRemaining = settings.countdownSeconds
    /\ runtime.remainingSeconds < PhaseDuration(template, "exercise", runtime.currentExerciseIndex)

\* a phase resumed from a pause with no countdown, not yet advanced
IsResumedPhase == lastChange = "resume" /\ IsRunning(runtime) /\ screen = "run"
\* a paused phase
IsPausedPhase == lastChange = "pause" /\ runtime.status = "paused" /\ screen = "run"
\* the instants at or after the pause
ResumeTimes == {t \in WallTimes : t >= runtime.pausedAt}
\* advanceRuntimeToNow crosses exactly the boundary of s at t
CrossesOneBoundary(tpl, s, t) ==
    LET adv == AdvanceRuntimeToNow(s, tpl, t)
    IN  IF IsFinalPhase(tpl, s) THEN adv.completed
        ELSE ~adv.completed /\ adv.nextState = SuccessorPhase(tpl, s, t)
CrossesNoBoundary(tpl, s, t) ==
    AdvanceRuntimeToNow(s, tpl, t) = [nextState |-> s, completed |-> FALSE]

\* C13 as stated: a phase paused with r seconds left and resumed (no
\* countdown) at a later time T is crossed at no now < T + r*1000 and
\* exactly once at now = T + r*1000.
C13_RoundTripAsStated ==
    IsPausedPhase =>
        \A T \in ResumeTimes :
            LET r == runtime.remainingSeconds
                resumed == StartedPhase(runtime, runtime.pausedPhase, T)
            IN  \A t \in WallTimes \cup {T + r * 1000} :
                    /\ t < T + r * 1000 => CrossesNoBoundary(template, resumed, t)
                    /\ t = T + r * 1000 => CrossesOneBoundary(template, resumed, t)

\* C13 amended: pausing a running phase s at p captures
\* r = getCurrentRemainingSeconds(s, p); resuming at T >= p with no
\* countdown keeps r and anchors the phase at T; then advanceRuntimeToNow
\* crosses no boundary at any now < T + r*1000 when r > 0, or when T <= now,
\* and exactly one at now = T + r*1000.  (A phase resumed with r = 0 is
\* crossed at every now, also at one earlier than T.)
C13_RoundTrip ==
    /\ [][IsPauseStep =>
            runtime'.remainingSeconds = GetCurrentRemainingSeconds(runtime, clock')]_vars
    /\ [][(IsResumeStep /\ ~settings.countdownEnabled) =>
            runtime' = StartedPhase(runtime, runtime.pausedPhase, clock')]_vars
    /\ [](IsPausedPhase =>
            \A T \in ResumeTimes :
                LET r == runtime.remainingSeconds
                    resumed == StartedPhase(runtime, runtime.pausedPhase, T)
                IN  /\ resumed.phaseStartedAt = T /\ resumed.remainingSeconds = r
                    /\ \A t \in WallTimes \cup {T + r * 1000} :
                          /\ (t < T + r * 1000 /\ (r > 0 \/ T <= t))
                                => CrossesNoBoundary(template, resumed, t)
                          /\ t = T + r * 1000 => CrossesOneBoundary(template, resumed, t))

\* a two-second exercise resumed with one second left, sampled later and
\* not crossed
C13_Witness ==
    /\ IsResumedPhase
    /\ runtime.status = "exercise"
    /\ runtime.remainingSeconds = 1
    /\ PhaseDuration(template, "exercise", runtime.currentExerciseIndex) = 2
    /\ clock > runtime.phaseStartedAt
    /\ dirty = {}

\* handleSkipCooldown ran
IsSkipStep == dirty = {} /\ screen = "run" /\ lastChange' = "skip"
\* a cooldown that was skipped and not yet advanced
IsSkippedCooldown == lastChange = "skip" /\ screen = "run" /\ dirty # {}
\* the instants advanceRuntimeToNow may be called at after the skip
SkipTimes == WallTimes \cup {runtime.phaseStartedAt + 1000 * k : k \in 0..MaxDuration}

\* C14 as stated: the skip sets remainingSeconds = 0 and phaseStartedAt =
\* the skip instant; the next advanceRuntimeToNow call, for any now, yields
\* the next exercise with its full duration and phaseStartedAt = the skip
\* instant, or completed = true after the final cooldown.
C14_SkipCooldownAsStated ==
    IsSkippedCooldown =>
        /\ runtime.status = "cooldown" /\ runtime.remainingSeconds = 0
        /\ runtime.phaseStartedAt = clock
        /\ \A t \in SkipTimes :
              LET adv == AdvanceRuntimeToNow(runtime, template, t)
              IN  IF IsFinalPhase(template, runtime) THEN adv.completed
                  ELSE /\ ~adv.completed
                       /\ adv.nextState = SuccessorPhase(template, runtime, runtime.phaseStartedAt)

\* C14 amended: skip cooldown in status cooldown sets remainingSeconds = 0
\* and phaseStartedAt = the skip instant and changes nothing else.  The
\* next advanceRuntimeToNow call, for any now, crosses the cooldown's
\* boundary at once: after the final cooldown it returns completed = true;
\* otherwise the next exercise (or the first exercise of the next set)
\* begins with its full duration at the skip instant, and the call returns
\* it when now < skip instant + that duration * 1000 and what a call on
\* that exercise returns for a later now.
C14_SkipCooldown ==
    /\ [][IsSkipStep =>
            /\ runtime.status = "cooldown"
            /\ runtime' = [runtime EXCEPT !.remainingSeconds = 0, !.phaseStartedAt = clock']
            /\ UNCHANGED <<countdownRemaining, countdownTargetStatus>>]_vars
    /\ [](IsSkippedCooldown =>
            \A t \in SkipTimes :
                LET adv == AdvanceRuntimeToNow(runtime, template, t)
                    next == SuccessorPhase(template, runtime, runtime.phaseStartedAt)
                IN  /\ adv # [nextState |-> runtime, completed |-> FALSE]
                    /\ IsFinalPhase(template, runtime) =>
                          adv = [nextState |-> runtime, completed |-> TRUE]
                    /\ ~IsFinalPhase(template, runtime) =>
                          /\ next.status = "exercise"
                          /\ next.remainingSeconds =
                                PhaseDuration(template, "exercise", next.currentExerciseIndex)
                          /\ adv = AdvanceRuntimeToNow(next, template, t)
                          /\ t < Boundary(next) =>
                                adv = [nextState |-> next, completed |-> FALSE])

\* the cooldown after the last exercise of the first set was skipped
C14_Witness ==
    /\ IsSkippedCooldown
    /\ runtime.status = "cooldown"
    /\ runtime.remainingSeconds = 0
    /\ runtime.currentSetIndex = 0
    /\ runtime.currentExerciseIndex = Len(template.exercises) - 1
    /\ template.setsCount > 1

\* the countdown finish effect ran: the target was consumed on the screen
IsFinishStep ==
    /\ screen = "run" /\ screen' = "run"
    /\ countdownTargetStatus # NullPhase /\ countdownTargetStatus' = NullPhase
\* a countdown that has run out and whose target is still to be entered
IsCountdownOver ==
    /\ screen = "run" /\ errorMessage = "null"
    /\ countdownRemaining = 0 /\ countdownTargetStatus # NullPhase

\* C15: countdown pre-roll.  While countdownRemaining > 0 every change of
\* it on the screen is a decrease by exactly 1, and it is never below 0.
\* Once it is 0 with a target, the effects of that commit are pending and
\* the one step that follows sets runtime.status = countdownTargetStatus,
\* phaseStartedAt = now, pausedAt = null, pausedPhase = null and
\* countdownTargetStatus = null and leaves remainingSeconds, the indices
\* and startedAt alone.  With the countdown enabled a phase starts running
\* on the screen by this step only, and the step consumes the target, so
\* it happens once per countdown.
C15_Countdown ==
    /\ [](countdownRemaining >= 0)
    /\ [][(screen = "run" /\ screen' = "run" /\ countdownRemaining > 0
             /\ countdownRemaining' # countdownRemaining)
            => countdownRemaining' = countdownRemaining - 1]_vars
    /\ [](IsCountdownOver => "state" \in dirty /\ ~IsRunningStatus(runtime.status))
    /\ [][(IsCountdownOver /\ screen' = "run") => IsFinishStep]_vars
    /\ [][IsFinishStep =>
            /\ countdownRemaining = 0 /\ countdownRemaining' = 0
            /\ runtime' = [runtime EXCEPT !.status = countdownTargetStatus,
                                          !.phaseStartedAt = clock',
                                          !.pausedAt = Null,
                                          !.pausedPhase = NullPhase]]_vars
    /\ [][(screen = "run" /\ screen' = "run" /\ settings.countdownEnabled
             /\ ~IsRunningStatus(runtime.status) /\ IsRunningStatus(runtime'.status))
            => IsFinishStep]_vars

\* a paused cooldown has been entered again at the end of the longest
\* countdown
C15_Witness ==
    /\ lastChange = "finish"
    /\ settings.countdownSeconds = MaxCountdownSeconds
    /\ runtime.status = "cooldown"
    /\ runtime.phaseStartedAt = clock
    /\ countdownRemaining = 0
    /\ countdownTargetStatus = NullPhase
    /\ dirty # {}

\* C16: on the screen, in every state reached through start, countdown
\* steps, clock ticks, pause, resume, skip, persist and restore, while
\* countdownRemaining > 0 runtime.status is idle or paused, and no step (no
\* clock tick, no effect pass, no countdown step) changes a runtime field.
C16_FrozenDuringCountdown ==
    /\ []((screen = "run" /\ countdownRemaining > 0) => runtime.status \in {"idle", "paused"})
    /\ [][(screen = "run" /\ screen' = "run" /\ countdownRemaining > 0)
            => runtime' = runtime]_vars

\* a paused session in the middle of its resume countdown, after a clock
\* tick and a restore
C16_Witness ==
    /\ screen = "run"
    /\ runtime.status = "paused"
    /\ countdownRemaining > 0
    /\ countdownRemaining < settings.countdownSeconds
    /\ lastChange = "load"
    /\ clock # runtime.pausedAt
    /\ dirty = {}

\* persistSnapshotNow ran at t: in the persist effect of a commit that
\* changed the runtime or the countdown, or when the app left the foreground
IsPersistStep(t) == Background(t) \/ ("state" \in dirty /\ RunEffects(t))
\* the countdown sub-state a stored snapshot restores
RestoredCountdown(raw) ==
    LET snapshot == GetActiveSessionSnapshot(raw)
    IN  [remaining |-> IF snapshot.countdownRemaining = Null THEN 0
                       ELSE snapshot.countdownRemaining,
         target |-> snapshot.countdownTargetStatus]

\* C17: every snapshot persistSnapshotNow writes at time now for an active
\* session has updatedAt = now, remainingSeconds =
\* getCurrentRemainingSeconds(runtime, now) and phaseStartedAt = updatedAt
\* if the runtime is running, null otherwise; status, indices, startedAt,
\* pausedAt and pausedPhase are the live ones and the countdown sub-state
\* it restores is the live one.  With no active session nothing is stored.
C17_SnapshotContents ==
    [][\A t \in WallTimes :
         IsPersistStep(t) =>
            /\ (runtime.startedAt = Null /\ countdownRemaining = 0) => stored' = Missing
            /\ stored' # Missing =>
                 /\ stored'.t = "obj"
                 /\ stored'.updatedAt = JNum(t)
                 /\ stored'.remainingSeconds = JNum(GetCurrentRemainingSeconds(runtime, t))
                 /\ stored'.phaseStartedAt =
                       (IF IsRunningStatus(runtime.status) THEN stored'.updatedAt ELSE JNull)
                 /\ stored'.status = JStr(runtime.status)
                 /\ stored'.currentExerciseIndex = JNum(runtime.currentExerciseIndex)
                 /\ stored'.currentSetIndex = JNum(runtime.currentSetIndex)
                 /\ stored'.startedAt = JsonNumber(runtime.startedAt)
                 /\ stored'.pausedAt = JsonNumber(runtime.pausedAt)
                 /\ stored'.pausedPhase =
                       (IF runtime.pausedPhase = NullPhase THEN JNull ELSE JStr(runtime.pausedPhase))
                 /\ RestoredCountdown(stored') =
                       [remaining |-> countdownRemaining, target |-> countdownTargetStatus]]_vars

\* a running cooldown was persisted, a second into it, when the app left
\* the foreground: the snapshot holds the second that is left, anchored at
\* its own updatedAt
C17_Witness ==
    /\ appState = "background"
    /\ runtime.status = "cooldown"
    /\ stored # Missing
    /\ stored.status = JStr("cooldown")
    /\ stored.phaseStartedAt = stored.updatedAt
    /\ stored.updatedAt = JNum(runtime.phaseStartedAt + 1000)
    /\ stored.remainingSeconds = JNum(runtime.remainingSeconds - 1)

\* a live session: running, paused, or idle with startedAt set
IsLiveSession ==
    screen = "run" /\ errorMessage = "null" /\ runtime.startedAt # Null
\* what the store holds after the live state is persisted at t
Encoded(t) ==
    PersistSnapshotNow(template, runtime, countdownRemaining, countdownTargetStatus, t)
\* the runtime restored at u from what the store holds
Decoded(raw, u) == NormalizeSnapshotToRuntime(GetActiveSessionSnapshot(raw), u)
\* the load effect restored a stored snapshot
IsRestoreStep == screen = "loading" /\ params.resume /\ lastChange' = "load"

\* C18: snapshot round trip.  For every live state s and every now,
\* persisting s at now, decoding and normalizing what was stored (at any
\* time) and querying getCurrentRemainingSeconds of the result at now gives
\* getCurrentRemainingSeconds(s, now).  It holds of the snapshots the
\* persist steps store, and the load effect restores by this decoding.
C18_RoundTrip ==
    /\ [](IsLiveSession =>
            \A t \in WallTimes, u \in WallTimes :
                /\ GetActiveSessionSnapshot(Encoded(t)) # NoSnapshot
                /\ GetCurrentRemainingSeconds(Decoded(Encoded(t), u), t)
                      = GetCurrentRemainingSeconds(runtime, t))
    /\ [][\A t \in WallTimes :
            (IsPersistStep(t) /\ stored' # Missing) =>
                \A u \in WallTimes :
                    GetCurrentRemainingSeconds(Decoded(stored', u), t)
                        = GetCurrentRemainingSeconds(runtime, t)]_vars
    /\ [][IsRestoreStep => runtime' = Decoded(stored, clock')]_vars

\* a running two-second exercise was restored from a snapshot taken a
\* second into it: one second is left, counted from the snapshot's instant
C18_Witness ==
    /\ lastChange = "load"
    /\ dirty # {}
    /\ runtime.status = "exercise"
    /\ PhaseDuration(template, "exercise", runtime.currentExerciseIndex) = 2
    /\ runtime.remainingSeconds = 1
    /\ stored # Missing
    /\ stored.updatedAt = JNum(runtime.phaseStartedAt)
    /\ GetCurrentRemainingSeconds(runtime, runtime.phaseStartedAt) = 1

\* the decoded snapshot names a running phase and has no anchor
IsAnchorless(snapshot) ==
    /\ snapshot # NoSnapshot
    /\ snapshot.status \in {"exercise", "cooldown"}
    /\ snapshot.phaseStartedAt = Null
\* the load effect restores the stored snapshot, normalizing it at u
IsRestoreAt(u) ==
    /\ screen = "loading"
    /\ lastChange' = "load"
    /\ \E e \in RestoreTimes : Load(e, u, clock')
\* the restored runtime is running and has no anchor
RestoredWithoutAnchor ==
    IsRunningStatus(runtime'.status) /\ runtime'.phaseStartedAt = Null

\* C19 as stated: restoring a snapshot whose status is exercise or cooldown
\* and whose phaseStartedAt is null gives status = paused, phaseStartedAt =
\* null, pausedPhase = the snapshot's status and pausedAt = the restore
\* time; no restored runtime is running without an anchor.
C19_RestoreAsStated ==
    /\ [][\A u \in RestoreTimes :
            (IsRestoreAt(u) /\ IsAnchorless(GetActiveSessionSnapshot(stored))) =>
                /\ runtime'.status = "paused"
                /\ runtime'.phaseStartedAt = Null
                /\ runtime'.pausedPhase = GetActiveSessionSnapshot(stored).status
                /\ runtime'.pausedAt = u]_vars
    /\ [][IsRestoreStep => ~RestoredWithoutAnchor]_vars

\* C19, amended: restoring a snapshot whose status is exercise or cooldown
\* and whose phaseStartedAt is null gives status = paused, phaseStartedAt =
\* null, pausedPhase = the snapshot's pausedPhase when it is exercise or
\* cooldown and the snapshot's status otherwise, pausedAt = the snapshot's
\* pausedAt when it is a number and the restore time otherwise, and the
\* snapshot's position and remaining seconds; no restored runtime is
\* running without an anchor.
C19_Restore ==
    /\ [][\A u \in RestoreTimes :
            (IsRestoreAt(u) /\ IsAnchorless(GetActiveSessionSnapshot(stored))) =>
                LET snapshot == GetActiveSessionSnapshot(stored)
                IN  /\ runtime'.status = "paused"
                    /\ runtime'.phaseStartedAt = Null
                    /\ runtime'.pausedPhase =
                          IF snapshot.pausedPhase # NullPhase THEN snapshot.pausedPhase
                          ELSE snapshot.status
                    /\ runtime'.pausedAt =
                          IF snapshot.pausedAt # Null THEN snapshot.pausedAt ELSE u
                    /\ SamePosition(runtime', snapshot)
                    /\ runtime'.remainingSeconds = snapshot.remainingSeconds]_vars
    /\ [][IsRestoreStep => ~RestoredWithoutAnchor]_vars

\* a cooldown snapshot without anchor, pause instant and paused phase was
\* restored at 500: paused in the cooldown since 500
C19_Witness ==
    /\ lastChange = "load"
    /\ dirty # {}
    /\ stored.t = "obj"
    /\ stored.status = JStr("cooldown")
    /\ stored.phaseStartedAt = JNull
    /\ stored.pausedAt = JNull
    /\ stored.pausedPhase = JNull
    /\ runtime.status = "paused"
    /\ runtime.pausedPhase = "cooldown"
    /\ runtime.pausedAt = 500
    /\ runtime.phaseStartedAt = Null

\* the keys whose value has to be a finite number
NumericKeys == {"currentExerciseIndex", "currentSetIndex", "remainingSeconds", "updatedAt"}
\* the stored value is missing, unparsable, not an object, or an object
\* with a status outside the four, a templateId that is not a non-empty
\* string, or a numeric key that holds no finite number
IsMalformed(raw) ==
    IF raw \in {Missing, Unparsable} THEN TRUE
    ELSE IF raw.t # "obj" THEN TRUE
    ELSE \/ raw.status \notin {JStr("idle"), JStr("exercise"), JStr("cooldown"), JStr("paused")}
         \/ raw.templateId.t # "str"
         \/ raw.templateId = JStr("")
         \/ \E k \in NumericKeys : raw[k].t \notin {"num", "frac"}
\* the load of a screen opened to resume has ended
IsResumeLoadStep == screen = "loading" /\ params.resume /\ screen' # "loading"

\* C20: getActiveSessionSnapshot gives null for a stored value that is
\* missing, unparsable, not an object, or has a status outside {idle,
\* exercise, cooldown, paused}, an empty or non-string templateId, or a
\* non-finite or non-numeric currentExerciseIndex, currentSetIndex,
\* remainingSeconds or updatedAt; a resume over such a value leaves the
\* runtime idle, starts no countdown, keeps the store as it is, and shows
\* that no recoverable session was found.
C20_Decode ==
    /\ [](IsMalformed(stored) => GetActiveSessionSnapshot(stored) = NoSnapshot)
    /\ [][(IsResumeLoadStep /\ IsMalformed(stored)) =>
            /\ runtime' = CreateIdleRuntime
            /\ countdownRemaining' = 0
            /\ countdownTargetStatus' = NullPhase
            /\ errorMessage' = "No recoverable session found."
            /\ stored' = stored
            /\ dirty' = {}]_vars

\* a resume over a snapshot whose remainingSeconds is no finite number
\* ended with the message and an idle runtime
C20_Witness ==
    /\ screen = "run"
    /\ params.resume
    /\ errorMessage = "No recoverable session found."
    /\ stored.t = "obj"
    /\ stored.status = JStr("exercise")
    /\ stored.remainingSeconds = JInf
    /\ runtime = CreateIdleRuntime

\* the load of a resume decoded a snapshot and tested its age at e
IsAgeTestAt(e) ==
    /\ screen = "loading"
    /\ params.resume
    /\ GetActiveSessionSnapshot(stored) # NoSnapshot
    /\ \E u \in RestoreTimes : Load(e, u, clock')
\* the load rejected the snapshot as expired
IsRejectedAsExpired ==
    /\ stored' = Missing
    /\ runtime' = CreateIdleRuntime
    /\ countdownRemaining' = 0
    /\ countdownTargetStatus' = NullPhase
    /\ alerts' = Append(alerts, "Session Expired")
    /\ errorMessage' = "No recoverable session found."
    /\ dirty' = {}
\* the load restored the snapshot
IsAccepted ==
    /\ stored' = stored
    /\ errorMessage' = "null"
    /\ \E u \in RestoreTimes :
          runtime' = NormalizeSnapshotToRuntime(GetActiveSessionSnapshot(stored), u)
    /\ dirty' # {}

\* C21: on a resume at now, a snapshot with updatedAt = now - 24 h - 1 ms
\* is rejected: the store is cleared, the runtime stays idle without a
\* countdown, "Session Expired" is alerted and the screen shows an error.
\* A snapshot of a stored template with updatedAt = now - 24 h + 1 ms is
\* restored.  Once a snapshot was rejected the runtime stays the idle one
\* and no effect is left to run: nothing advances it.
C21_Expiry ==
    /\ [][\A e \in RestoreTimes :
            (IsAgeTestAt(e)
                /\ GetActiveSessionSnapshot(stored).updatedAt = e - SNAPSHOT_MAX_AGE_MS - 1)
              => IsRejectedAsExpired]_vars
    /\ [][\A e \in RestoreTimes :
            (IsAgeTestAt(e)
                /\ GetActiveSessionSnapshot(stored).updatedAt = e - SNAPSHOT_MAX_AGE_MS + 1
                /\ GetActiveSessionSnapshot(stored).templateId = TemplateIdOf(template))
              => IsAccepted]_vars
    /\ []("Session Expired" \in {alerts[i] : i \in DOMAIN alerts} =>
            /\ runtime = CreateIdleRuntime
            /\ lastChange = "none"
            /\ stored = Missing
            /\ dirty = {})

\* a snapshot written at 0 was rejected on a resume a day and a
\* millisecond later
C21_Witness ==
    /\ screen = "run"
    /\ params.resume
    /\ alerts = <<"Session Expired">>
    /\ errorMessage = "No recoverable session found."
    /\ stored = Missing
    /\ runtime = CreateIdleRuntime

\* a running snapshot written at 0 was restored on a resume a millisecond
\* less than a day later
C21_WitnessAccepted ==
    /\ lastChange = "load"
    /\ dirty # {}
    /\ clock = SNAPSHOT_MAX_AGE_MS - 1
    /\ runtime.status = "exercise"
    /\ runtime.phaseStartedAt = 0
    /\ stored.t = "obj"
    /\ stored.updatedAt = JNum(0)

\* the screen handed the session off to /session/complete
IsHandedOff == handoffs # <<>>
\* AsyncStorage is idle and has rejected no request of this screen
IsStorageSettled == pending = <<>> /\ ~hasWarned

\* C22: a session is handed off at most once, with the template's id and
\* the session's startedAt, however often the advance effect finds it
\* completed; after the handoff, once the requests in flight are done (none
\* of them having failed), the store holds no snapshot: no tick, pause,
\* app-background persist or write in flight leaves one of the completed
\* session.
C22_Handoff ==
    /\ Len(handoffs) <= 1
    /\ IsHandedOff =>
          handoffs[1] = [templateId |-> TemplateIdOf(template), startedAt |-> runtime.startedAt]
    /\ (IsHandedOff /\ IsStorageSettled) => stored = Missing

\* discardSession has finished: its clear is done and it has left for home
IsDiscarded == screen = "home"

\* C23: once a confirmed discard has finished and the requests in flight
\* are done (none of them having failed), the store holds no snapshot,
\* whatever ticks, countdown decrements, phase transitions and snapshot
\* writes came between the confirmation and the end of the discard.
C23_Discard == (IsDiscarded /\ IsStorageSettled) => stored = Missing

\* the storage warnings the screen has shown
StorageWarnings == {i \in DOMAIN alerts : alerts[i] = "Storage Warning"}

C24_WitnessCompleted ==
    /\ screen = "complete"
    /\ Len(handoffs) = 1
    /\ pending = <<>>
    /\ alerts = <<"Storage Warning">>

\* how many of the three hold of s: anchored, paused, idle
ModesOf(s) ==
    Cardinality({m \in {"anchored", "paused", "idle"} :
                    \/ m = "anchored" /\ s.phaseStartedAt # Null
                    \/ m = "paused" /\ s.status = "paused"
                    \/ m = "idle" /\ s.status = "idle"})

\* C25: in every state of the screen exactly one of these holds of the
\* runtime: phaseStartedAt is not null, status is paused, status is idle;
\* and phaseStartedAt is not null exactly when status is exercise or
\* cooldown.  Every start, countdown finish, advance, pause, resume, skip
\* and restore of the stored snapshot ends in such a state, the store
\* holding what the screen wrote to it.
C25_OneMode ==
    /\ ModesOf(runtime) = 1
    /\ runtime.phaseStartedAt # Null <=> IsRunningStatus(runtime.status)

\* a paused session was restored from its snapshot after a relaunch
C25_Witness ==
    /\ lastChange = "load"
    /\ params.resume
    /\ runtime.status = "paused"
    /\ runtime.phaseStartedAt = Null
    /\ runtime.pausedAt # Null

\* C26: in every state of a session on a valid template the exercise
\* index is within the template's exercises, the set index within its
\* sets, and remainingSeconds is a natural number; start, advance, pause,
\* resume, skip and restore all keep it so.
C26_Bounds ==
    /\ runtime.currentExerciseIndex \in 0..(Len(template.exercises) - 1)
    /\ runtime.currentSetIndex \in 0..(template.setsCount - 1)
    /\ runtime.remainingSeconds \in Nat

\* the session stands in the last exercise of the last set, having been
\* advanced there
C26_Witness ==
    /\ lastChange = "advance"
    /\ Len(template.exercises) > 1 /\ template.setsCount > 1
    /\ runtime.currentExerciseIndex = Len(template.exercises) - 1
    /\ runtime.currentSetIndex = template.setsCount - 1
    /\ runtime.status = "exercise"

\* the step starts a session at t
IsStartAt(t) == runtime.status = "idle" /\ lastChange' = "start" /\ HandleStart(t)

\* the step restores the session of the stored snapshot
IsRestoreOfStored ==
    /\ screen = "loading" /\ params.resume /\ lastChange' = "load"
    /\ GetActiveSessionSnapshot(stored) # NoSnapshot

\* C27: startedAt is null until Start, which sets it to the time it reads;
\* afterwards no countdown step, advance, pause, resume, skip or persist
\* changes it while the screen shows the session, a snapshot that is
\* written carries it, a restore takes it from the snapshot, and the
\* handoff at completion passes it on.
C27_StartedAt ==
    [][/\ (runtime.startedAt = Null /\ runtime'.startedAt # Null) =>
              \/ \E t \in StartTimes : IsStartAt(t) /\ runtime'.startedAt = t
              \/ /\ IsRestoreOfStored
                 /\ runtime'.startedAt = GetActiveSessionSnapshot(stored).startedAt
       /\ (runtime.startedAt # Null /\ screen' = "run") =>
              runtime'.startedAt = runtime.startedAt
       /\ (runtime.startedAt # Null /\ stored' # stored /\ stored' # Missing) =>
              GetActiveSessionSnapshot(stored').startedAt = runtime.startedAt
       /\ Len(handoffs') > Len(handoffs) =>
              /\ runtime.startedAt # Null
              /\ handoffs' = Append(handoffs, [templateId |-> TemplateIdOf(template),
                                               startedAt |-> runtime.startedAt])
      ]_vars

\* a session started at 500 ms, resumed after a relaunch, has completed
\* and handed that start time off
C27_Witness ==
    /\ screen = "complete"
    /\ params.resume
    /\ Len(handoffs) = 1
    /\ handoffs[1].startedAt = 500
    /\ clock > 500

\* C28: Start on a template with no exercises, with an exercise of
\* non-positive duration or with a non-positive setsCount starts no
\* session: the runtime stays idle with startedAt null, no countdown runs
\* and no snapshot is written.
C28_Rejected ==
    IsInvalidTemplate(template) =>
        /\ runtime.status = "idle" /\ runtime.startedAt = Null
        /\ countdownRemaining = 0 /\ countdownTargetStatus = NullPhase
        /\ stored = Missing

C29_WitnessDirect ==
    /\ lastChange = "start"
    /\ ~settings.countdownEnabled
    /\ runtime.status = "exercise" /\ runtime.phaseStartedAt = 500

\* runtime, countdown and stored snapshot stay as they are and no effect
\* is left to run
IsUntouched ==
    /\ UNCHANGED <<runtime, countdownRemaining, countdownTargetStatus, stored>>
    /\ dirty' = {}

\* C30: a handler called where its operation is not valid changes neither
\* the runtime nor the countdown nor the stored snapshot: Pause while the
\* status is not exercise or cooldown, Resume while it is not paused, Skip
\* cooldown while it is not cooldown (a pause taken in a cooldown
\* included), Stop before a session was started.
C30_Ignored ==
    [][/\ \A t \in QueueTimes :
              /\ (InvokePause(t) /\ ~IsRunningStatus(runtime.status)) => IsUntouched
              /\ (InvokeResume(t) /\ runtime.status # "paused") => IsUntouched
              /\ (InvokeSkipCooldown(t) /\ runtime.status # "cooldown") => IsUntouched
       /\ (InvokeStop /\ runtime.startedAt = Null) => IsUntouched
      ]_vars

\* Skip cooldown was called while a cooldown was paused
C30_Witness ==
    /\ invoked = "skip"
    /\ runtime.status = "paused"
    /\ runtime.pausedPhase = "cooldown"

\* Pause was called on a paused session
C30_WitnessPause ==
    /\ invoked = "pause"
    /\ runtime.status = "paused"

\* Stop was called before Start
C30_WitnessStop ==
    /\ invoked = "stop"
    /\ runtime.startedAt = Null

\* the screen shows the session and every effect of the last commit ran
IsSettled == screen = "run" /\ errorMessage = "null" /\ dirty = {}

\* isSessionActive of persistSnapshotNow, line 497
IsSessionActive == runtime.startedAt # Null \/ countdownRemaining > 0

\* the stored snapshot has the live status, position, startedAt, pause
\* fields and countdown, and no more seconds left than the live state
ReflectsLiveState(raw) ==
    /\ GetActiveSessionSnapshot(raw) # NoSnapshot
    /\ LET snapshot == GetActiveSessionSnapshot(raw)
       IN  /\ snapshot.status = runtime.status
           /\ snapshot.currentExerciseIndex = runtime.currentExerciseIndex
           /\ snapshot.currentSetIndex = runtime.currentSetIndex
           /\ snapshot.startedAt = runtime.startedAt
           /\ snapshot.pausedAt = runtime.pausedAt
           /\ snapshot.pausedPhase = runtime.pausedPhase
           /\ snapshot.remainingSeconds <= runtime.remainingSeconds
           /\ (runtime.status = "paused" =>
                   snapshot.remainingSeconds = runtime.remainingSeconds)
    /\ RestoredCountdown(raw) =
          [remaining |-> countdownRemaining, target |-> countdownTargetStatus]

\* C31 as stated: the slot holds no snapshot while the first phase of the
\* session has not started, that is while the runtime is idle.
C31_LifecycleAsStated ==
    (IsSettled /\ runtime.status = "idle") => stored = Missing

\* C31: the slot is empty while no session is active (startedAt null and
\* no countdown), which is until Start and not until the first phase
\* starts; while a session is active the slot holds a snapshot of the live
\* state once the effects of a change have run, and after every
\* app-background event; persisting with no session active clears the slot.
C31_Lifecycle ==
    /\ []((IsSettled /\ ~IsSessionActive) => stored = Missing)
    /\ []((IsSettled /\ IsSessionActive) => ReflectsLiveState(stored))
    /\ [][\A t \in WallTimes :
            IsPersistStep(t) =>
                IF IsSessionActive
                  THEN screen' = "run" => /\ stored' = Encoded(t)
                                          /\ ReflectsLiveState(stored')
                  ELSE stored' = Missing]_vars

\* the start countdown runs and the slot holds the idle session
C31_Witness ==
    /\ IsSettled
    /\ runtime.status = "idle"
    /\ countdownRemaining > 0
    /\ ReflectsLiveState(stored)

\* a call of advanceRuntimeToNow on a running state has returned
IsAdvanceOfRunning == pc = "done" /\ ~NotRunning(runtime)

\* advancing the call's input to t1 and the result on to the call's now
\* gives what the call returned
SameViaStop(t1) ==
    LET first == AdvanceRuntimeToNow(runtime, template, t1)
        second == AdvanceRuntimeToNow(first.nextState, template, now)
    IN  ~first.completed =>
            /\ second.nextState = nextState
            /\ second.completed = completed

\* C32 as stated: for every running state, valid template and times
\* now1 <= now2 with advanceRuntimeToNow(s, template, now1) not completed,
\* advancing to now1 and then to now2 returns the nextState and completed
\* flag of advancing to now2 at once.
C32_PathIndependentAsStated ==
    IsAdvanceOfRunning =>
        \A t1 \in Times(template, runtime) : t1 <= now => SameViaStop(t1)

\* C32: the same, for calls that cross fewer than MAX_TRANSITIONS_PER_TICK
\* boundaries on the way to now2; a call cut off by the cap returns
\* completed at the state it stopped in, while the stop at now1 gives the
\* second call a fresh count.
C32_PathIndependent ==
    (IsAdvanceOfRunning /\ transitions < MAX_TRANSITIONS_PER_TICK) =>
        \A t1 \in Times(template, runtime) : t1 <= now => SameViaStop(t1)

\* a call crossed a boundary after a stop that had crossed one before
C32_Witness ==
    /\ IsAdvanceOfRunning
    /\ ~completed
    /\ transitions >= 2
    /\ \E t1 \in Times(template, runtime) :
          /\ t1 < now
          /\ AdvanceRuntimeToNow(runtime, template, t1).nextState # runtime
          /\ AdvanceRuntimeToNow(runtime, template, t1).nextState # nextState

\* the phase s stands in: its own when running, the paused one when
\* paused, the exercise it waits for when idle
PhaseOf(s) ==
    IF s.status = "cooldown" \/ (s.status = "paused" /\ s.pausedPhase = "cooldown")
      THEN "cooldown" ELSE "exercise"

\* a and b stand in the same phase of the same exercise of the same set
IsSamePhase(a, b) ==
    /\ a.currentSetIndex = b.currentSetIndex
    /\ a.currentExerciseIndex = b.currentExerciseIndex
    /\ PhaseOf(a) = PhaseOf(b)

\* b stands later in the session than a: (set, exercise, exercise before
\* cooldown) in lexicographic order
IsLaterPhase(a, b) ==
    \/ a.currentSetIndex < b.currentSetIndex
    \/ /\ a.currentSetIndex = b.currentSetIndex
       /\ \/ a.currentExerciseIndex < b.currentExerciseIndex
          \/ /\ a.currentExerciseIndex = b.currentExerciseIndex
             /\ PhaseOf(a) = "exercise" /\ PhaseOf(b) = "cooldown"

\* the step leaves the runtime in an exercise phase it was not in before
EntersExercise ==
    /\ runtime'.status = "exercise"
    /\ runtime.status # "exercise"
    /\ ~(runtime.status = "paused" /\ IsSamePhase(runtime, runtime'))

\* C33: while the screen shows the session no tick, pause, resume, skip or
\* effect moves the position (set, exercise, exercise before cooldown)
\* backward, whatever the clock reads; the position changes only by the
\* advance, which goes through the phases in their order; an exercise
\* phase is entered from an earlier position or at the session's start and
\* so once; the snapshot a settled session leaves restores to the live
\* position, and a restore takes the position of the stored snapshot.
C33_Progress ==
    /\ [][(screen = "run" /\ screen' = "run") =>
              /\ IsSamePhase(runtime, runtime') \/ IsLaterPhase(runtime, runtime')
              /\ ~IsSamePhase(runtime, runtime') =>
                    /\ lastChange' = "advance"
                    /\ runtime' = AdvanceRuntimeToNow(runtime, template, clock).nextState
              /\ EntersExercise =>
                    \/ IsLaterPhase(runtime, runtime')
                    \/ runtime.status = "idle"]_vars
    /\ [][(IsSettled /\ IsSessionActive /\ screen' = "loading") =>
              \A u \in WallTimes : IsSamePhase(Decoded(stored, u), runtime)]_vars
    /\ [][IsRestoreOfStored =>
              IsSamePhase(runtime', GetActiveSessionSnapshot(stored))]_vars

\* a session paused in the cooldown of its first set was resumed after a
\* relaunch and has gone on into the second set
C33_Witness ==
    /\ IsSettled
    /\ params.resume
    /\ lastChange = "advance"
    /\ runtime.currentSetIndex = 1
    /\ runtime.currentExerciseIndex = 0
    /\ runtime.status = "exercise"

\* persistSnapshotNow stored at t a running phase not past its boundary
IsPersistOfPending(t) ==
    /\ IsPersistStep(t)
    /\ IsRunning(runtime)
    /\ t <= Boundary(runtime)
    /\ stored' # Missing

\* the boundary of the state the stored snapshot restores
RestoredBoundary(raw) == Boundary(Decoded(raw, 0))

\* C34 as stated: a running phase persisted at u <= B, its boundary,
\* restores with a boundary in [B, B + 1000 ms).
C34_BoundaryKeptAsStated ==
    [][\A t \in WallTimes :
         IsPersistOfPending(t) =>
            /\ Boundary(runtime) <= RestoredBoundary(stored')
            /\ RestoredBoundary(stored') < Boundary(runtime) + 1000]_vars

\* C34: so it is when u is not before phaseStartedAt: the boundary moves
\* later by the part of a second elapsed of the phase.  When the clock
\* reads u before phaseStartedAt nothing counts as elapsed and the boundary
\* moves earlier by phaseStartedAt - u.
C34_BoundaryKept ==
    [][\A t \in WallTimes :
         IsPersistOfPending(t) =>
            IF runtime.phaseStartedAt <= t
              THEN /\ Boundary(runtime) <= RestoredBoundary(stored')
                   /\ RestoredBoundary(stored') < Boundary(runtime) + 1000
                   /\ RestoredBoundary(stored') =
                         Boundary(runtime) + ((t - runtime.phaseStartedAt) % 1000)
              ELSE RestoredBoundary(stored') =
                         Boundary(runtime) - (runtime.phaseStartedAt - t)]_vars

\* a phase started at 0 was persisted half a second into it when the app
\* left the foreground: the restored boundary is half a second later
C34_Witness ==
    /\ appState = "background"
    /\ IsRunning(runtime)
    /\ runtime.phaseStartedAt = 0
    /\ stored # Missing
    /\ stored.updatedAt = JNum(500)
    /\ RestoredBoundary(stored) = Boundary(runtime) + 500

\* the session stands in a phase, running or paused
IsInPhase ==
    /\ screen = "run"
    /\ runtime.startedAt # Null
    /\ runtime.status \in {"exercise", "cooldown", "paused"}

\* the time the phase will have run when its boundary is reached: what it
\* ran up to its last pause and the seconds left of it
PhaseRunMs == account.ranMs + runtime.remainingSeconds * 1000

\* the configured duration of the phase, in ms
PhaseConfiguredMs ==
    1000 * PhaseDuration(template, PhaseOf(runtime), runtime.currentExerciseIndex)

\* the phase runs its configured time and less than a second more for
\* each of its pauses
IsWithinPauseBounds ==
    /\ PhaseConfiguredMs <= PhaseRunMs
    /\ IF account.pauses = 0 THEN PhaseRunMs = PhaseConfiguredMs
       ELSE PhaseRunMs < PhaseConfiguredMs + 1000 * account.pauses

\* C35 as stated: after any number k of pauses of a phase the time it
\* spends running up to its boundary is at least its configured duration
\* and less than that plus k seconds (the clock never reading a time
\* before the phase's anchor).
C35_PauseAccountingAsStated == (IsInPhase /\ account.forward) => IsWithinPauseBounds

\* C35: a pause never increases remainingSeconds; and the bounds hold of a
\* phase each of whose pauses was taken between its anchor and its
\* boundary, the boundary included.  A pause taken later (no tick having
\* crossed the boundary yet) leaves 0 seconds and the time run past the
\* boundary is not made up for.
C35_PauseAccounting ==
    /\ []((IsInPhase /\ account.forward /\ account.onTime) => IsWithinPauseBounds)
    /\ [][\A t \in PauseTimes :
            PauseCounted(t) =>
                /\ runtime'.remainingSeconds <= runtime.remainingSeconds
                /\ (runtime.phaseStartedAt <= t /\ IsPauseOnTime(runtime, t)) =>
                      LET lost == (t - runtime.phaseStartedAt)
                                    - 1000 * (runtime.remainingSeconds - runtime'.remainingSeconds)
                      IN  0 <= lost /\ lost < 1000]_vars

\* the two-second exercise was paused twice, half a second into each of
\* its runs, and runs on: two seconds are left after the second it ran
C35_Witness ==
    /\ IsInPhase
    /\ runtime.status = "exercise"
    /\ account = [ranMs |-> 1000, pauses |-> 2, forward |-> TRUE, onTime |-> TRUE]
    /\ runtime.remainingSeconds = 2

\* ---- a clock update that crosses no boundary
\* the pass of the effects that follows a setClock alone (the interval's,
\* line 708, or the AppState listener's, line 695)
IsClockPass(t) == dirty = {"clock"} /\ RunEffects(t)

\* the test of lines 108-109 on the committed state: the new clock is
\* short of the running phase's boundary, or no phase runs
IsShortOfBoundary ==
    NotRunning(runtime) \/ ElapsedSeconds(runtime, clock) < runtime.remainingSeconds

\* the runtime and the countdown sub-state are left as they are, no cue
\* fires, the store is not written and no further pass is asked for
IsInvisibleStep ==
    /\ runtime' = runtime
    /\ countdownRemaining' = countdownRemaining
    /\ countdownTargetStatus' = countdownTargetStatus
    /\ cue' = <<>>
    /\ stored' = stored
    /\ dirty' = {}
    /\ screen' = screen

\* C36: a clock tick that crosses no phase boundary leaves the runtime and
\* the countdown sub-state unchanged, fires no cue and writes no snapshot,
\* neither as it is delivered nor in the pass of the effects it causes;
\* that pass changes the runtime, fires a cue or touches the store only
\* when advanceRuntimeToNow completes the session or returns a state other
\* than the current one.
C36_InvisibleTick ==
    /\ [][\A t \in WallTimes :
            Tick(t) => /\ runtime' = runtime /\ stored' = stored /\ cue' = cue
                       /\ countdownRemaining' = countdownRemaining
                       /\ countdownTargetStatus' = countdownTargetStatus]_vars
    /\ [][\A t \in WallTimes :
            (IsClockPass(t) /\ IsShortOfBoundary) => IsInvisibleStep]_vars
    /\ [][\A t \in WallTimes :
            (IsClockPass(t) /\ ~IsInvisibleStep) =>
                LET adv == AdvanceRuntimeToNow(runtime, template, clock)
                IN  adv.completed \/ adv.nextState # runtime]_vars

\* a phase runs since Start, the clock has been moved on from its anchor
\* short of its boundary, the effects have run and left everything else as
\* Start and its snapshot write left it
C36_Witness ==
    /\ IsSettled
    /\ lastChange = "start"
    /\ IsRunningStatus(runtime.status)
    /\ runtime.phaseStartedAt < clock
    /\ clock < Boundary(runtime)
    /\ runtime.remainingSeconds = template.exercises[1].durationSeconds
    /\ cue = <<>>
    /\ stored # Missing

\* ---- restoring what the screen wrote
\* the countdown sub-state the load effect sets from the store, lines 630-634
LoadedCountdown(raw) ==
    LET snapshot == GetActiveSessionSnapshot(raw)
    IN  [remaining |-> Max(0, Round(IF snapshot.countdownRemaining = Null THEN 0
                                    ELSE snapshot.countdownRemaining)),
         target |-> IF snapshot.countdownTargetStatus \in {"exercise", "cooldown"}
                      THEN snapshot.countdownTargetStatus ELSE NullPhase]

\* a and b are at the same point of the session
IsSamePoint(a, b) ==
    /\ a.status = b.status
    /\ a.currentExerciseIndex = b.currentExerciseIndex
    /\ a.currentSetIndex = b.currentSetIndex
    /\ a.startedAt = b.startedAt
    /\ a.pausedAt = b.pausedAt
    /\ a.pausedPhase = b.pausedPhase

\* restoring raw at any time gives the point and the countdown of the live
\* state
RestoresLiveState(raw) ==
    /\ GetActiveSessionSnapshot(raw) # NoSnapshot
    /\ \A u \in WallTimes : IsSamePoint(Decoded(raw, u), runtime)
    /\ LoadedCountdown(raw) =
          [remaining |-> countdownRemaining, target |-> countdownTargetStatus]

\* C37: restoring a snapshot the screen wrote resumes where the session
\* was.  The snapshot every persist step writes for an active session
\* decodes, at any restore time, to a runtime with the status, indices,
\* startedAt, pausedAt and pausedPhase of the live state and to its
\* countdownRemaining and countdownTargetStatus; and the load effect sets
\* the runtime and the countdown to what the stored snapshot decodes to.
C37_RestoreResumes ==
    /\ [][\A t \in WallTimes :
            (IsPersistStep(t) /\ IsSessionActive /\ screen' = "run") =>
                RestoresLiveState(stored')]_vars
    /\ [][\A u \in WallTimes :
            (params.resume /\ IsRestoreAt(u)) =>
                /\ runtime' = Decoded(stored, u)
                /\ [remaining |-> countdownRemaining', target |-> countdownTargetStatus']
                      = LoadedCountdown(stored)]_vars

\* the session was restored paused with the countdown of its resume
\* still running
C37_Witness ==
    /\ screen = "run" /\ errorMessage = "null"
    /\ params.resume
    /\ lastChange = "load"
    /\ runtime.status = "paused"
    /\ countdownRemaining > 0
    /\ countdownTargetStatus = runtime.pausedPhase

\* ---- the session ends
\* the last instant the model follows
LastLiveTime == 500 * (MaxLiveTicks + 6 * MaxPauses)

\* C38: with a clock that keeps advancing, ticks, timeouts and effects
\* that keep being run, a user who resumes after each of finitely many
\* pauses and never discards, every started session is completed and
\* handed to the completion screen with its startedAt; no session is
\* still running at the last instant followed.
C38_Completes ==
    /\ (screen = "run" /\ runtime.startedAt # Null)
          ~> (screen = "complete" /\ isCompleting /\ handoffs # <<>>)
    /\ [](screen = "run" => clock < LastLiveTime)
    /\ [][handoffs' # handoffs =>
            /\ AdvanceRuntimeToNow(runtime, template, clock).completed
            /\ handoffs' = <<[templateId |-> TemplateIdOf(template),
                              startedAt |-> runtime.startedAt]>>]_vars

\* the session was handed over after its last phase was paused and resumed
C38_Witness ==
    /\ screen = "complete"
    /\ Len(handoffs) = 1
    /\ cue = <<"complete">>
    /\ account.pauses >= 1

====
